---- MODULE Spec2Model ----
(***************************************************************************)
(* Model of simple_html_docgen: the identifier generator (pkg/document/    *)
(* idgen.go), the storage engine (pkg/storage), the document service       *)
(* (pkg/document/service) and the export pipeline (pkg/export).            *)
(*                                                                         *)
(* Go strings are sequences of one-character strings.  A filesystem path   *)
(* is the sequence of its components after filepath.Clean; the filesystem  *)
(* is a function from the paths that exist to their nodes.                 *)
(***************************************************************************)
EXTENDS Integers, Sequences, FiniteSets, TLC

(***************************************************************************)
(* Bounds of the model                                                     *)
(***************************************************************************)
\* number of distinct values the secure random source can yield
NumDraws == 1
\* largest wall-clock reading
MaxTime == 1
\* createDocument calls in the specification of document creation
MaxCreates == 3
\* calls in the specification of the whole service
MaxCalls == 2
\* filesystem steps that may fail
MaxFaults == 1
\* updateDocument calls in the specification of updates
MaxUpdates == 2
\* export calls in the specification of export
MaxExports == 1
\* addMedia and deleteDocument calls in the specification of deletion
MaxDeleteCalls == 4
MaxMediaCalls == 2
MaxIdgenCalls == 1
MaxRetryCreates == 2
MaxListCalls == 2

(***************************************************************************)
(* Program constants                                                       *)
(***************************************************************************)
MaxSlugLength == 30
SuffixLength == 4
MaxAttempts == 100

(***************************************************************************)
(* Strings                                                                 *)
(***************************************************************************)
\* n copies of the character c
RECURSIVE Rep(_, _)
Rep(c, n) == IF n = 0 THEN "" ELSE c \o Rep(c, n - 1)

\* the i-th character of s
Char(s, i) == SubSeq(s, i, i)

\* "^" stands for a byte that is not valid UTF-8, "~" for the replacement
\* rune U+FFFD
BadByte == "^"
ReplacementRune == "~"

Contains(s, c) == \E i \in 1..Len(s) : Char(s, i) = c

\* strings.Split(s, "/")
RECURSIVE Split(_)
Split(s) ==
  LET slashes == {i \in 1..Len(s) : Char(s, i) = "/"} IN
  IF slashes = {} THEN <<s>>
  ELSE LET i == CHOOSE k \in slashes : \A j \in slashes : k <= j
       IN <<SubSeq(s, 1, i - 1)>> \o Split(SubSeq(s, i + 1, Len(s)))

(***************************************************************************)
(* Paths: filepath.Join / filepath.Clean / filepath.Base                   *)
(***************************************************************************)
\* lexical resolution of the components comps below the clean absolute
\* path base: empty and "." components vanish, ".." drops the last one
RECURSIVE Resolve(_, _)
Resolve(base, comps) ==
  IF comps = <<>> THEN base
  ELSE LET c == Head(comps)
           b == IF c = "" \/ c = "." THEN base
                ELSE IF c = ".."
                     THEN (IF base = <<>> THEN <<>> ELSE SubSeq(base, 1, Len(base) - 1))
                     ELSE Append(base, c)
       IN Resolve(b, Tail(comps))

\* filepath.Join(base, s) for a clean absolute base
Join(base, s) == Resolve(base, Split(s))

\* filepath.Base(s): the last component, "." for the empty string and
\* "/" for a string of slashes only
RECURSIVE TrimSlashes(_)
TrimSlashes(s) ==
  IF s # "" /\ Char(s, Len(s)) = "/" THEN TrimSlashes(SubSeq(s, 1, Len(s) - 1)) ELSE s

Base(s) ==
  IF s = "" THEN "."
  ELSE LET t == TrimSlashes(s) IN
       IF t = "" THEN "/"
       ELSE LET cs == Split(t) IN cs[Len(cs)]

IsPrefix(p, q) == Len(p) <= Len(q) /\ SubSeq(q, 1, Len(p)) = p
Parent(p) == SubSeq(p, 1, Len(p) - 1)

(***************************************************************************)
(* File contents.  A file holds either raw bytes (s) or the JSON text of   *)
(* a metadata record (meta); a metadata.json that does not parse is raw.   *)
(***************************************************************************)
NoMeta == [name |-> "", created_at |-> 0, updated_at |-> 0]
Raw(s) == [kind |-> "raw", s |-> s, meta |-> NoMeta]
Json(m) == [kind |-> "json", s |-> "", meta |-> m]
\* string(bytes) of a file
Text(data) == IF data.kind = "raw" THEN data.s ELSE "{}"

DirNode == [dir |-> TRUE, data |-> Raw("")]
FileNode(data) == [dir |-> FALSE, data |-> data]

(***************************************************************************)
(* The os package on a filesystem f                                        *)
(***************************************************************************)
Exists(f, p) == p = <<>> \/ p \in DOMAIN f
IsDir(f, p) == p = <<>> \/ (p \in DOMAIN f /\ f[p].dir)
IsFile(f, p) == p \in DOMAIN f /\ ~f[p].dir

\* os.Stat(p) returns a nil error
Stat(f, p) == Exists(f, p)

Prefixes(p) == {SubSeq(p, 1, n) : n \in 1..Len(p)}

\* os.MkdirAll(p): fails when p or one of its ancestors is a file
MkdirAllOk(f, p) == \A q \in Prefixes(p) : ~IsFile(f, q)
MkdirAll(f, p) ==
  IF MkdirAllOk(f, p)
  THEN [q \in DOMAIN f \cup Prefixes(p) |-> IF q \in DOMAIN f THEN f[q] ELSE DirNode]
  ELSE f

\* os.WriteFile(p, data) / os.Create(p): the parent must be a directory and
\* p must not be one
WriteFileOk(f, p) == p # <<>> /\ IsDir(f, Parent(p)) /\ ~IsDir(f, p)
WriteFile(f, p, data) ==
  IF WriteFileOk(f, p)
  THEN [q \in DOMAIN f \cup {p} |-> IF q = p THEN FileNode(data) ELSE f[q]]
  ELSE f

\* os.RemoveAll(p)
RemoveAll(f, p) == [q \in {r \in DOMAIN f : ~IsPrefix(p, r)} |-> f[q]]

\* os.Remove(p): a file or an empty directory goes, anything else stays
Remove(f, p) ==
  IF \E q \in DOMAIN f : q # p /\ IsPrefix(p, q) THEN f ELSE RemoveAll(f, p)

(***************************************************************************)
(* Identifier generator (pkg/document/idgen.go)                            *)
(***************************************************************************)
UpperCase == "ABCDEFGHIJKLMNOPQRSTUVWXYZ"
LowerCase == "abcdefghijklmnopqrstuvwxyz"
\* unicode.ToLower of one ASCII character
ToLower(c) ==
  IF Contains(UpperCase, c)
  THEN Char(LowerCase, CHOOSE i \in 1..Len(UpperCase) : Char(UpperCase, i) = c)
  ELSE c

\* the characters slug.Make keeps: [a-z0-9-_] after lowercasing
Authorized(c) == Contains("abcdefghijklmnopqrstuvwxyz0123456789-_", c)

\* each character lowercased, and a hyphen for each one that is not kept
RECURSIVE Dashed(_)
Dashed(s) ==
  IF s = "" THEN ""
  ELSE (IF Authorized(ToLower(Head(s))) THEN ToLower(Head(s)) ELSE "-") \o Dashed(Tail(s))

\* every run of hyphens becomes one hyphen
RECURSIVE CollapseDashes(_)
CollapseDashes(s) ==
  IF Len(s) < 2 THEN s
  ELSE IF Char(s, 1) = "-" /\ Char(s, 2) = "-" THEN CollapseDashes(Tail(s))
       ELSE Head(s) \o CollapseDashes(Tail(s))

\* strings.Trim(s, "-_")
RECURSIVE TrimLeft(_)
TrimLeft(s) == IF s # "" /\ Head(s) \in {"-", "_"} THEN TrimLeft(Tail(s)) ELSE s
RECURSIVE TrimRight(_)
TrimRight(s) ==
  IF s # "" /\ Char(s, Len(s)) \in {"-", "_"} THEN TrimRight(SubSeq(s, 1, Len(s) - 1)) ELSE s

\* slug.Make(name): lowercase, every character outside [a-z0-9-_] becomes a
\* hyphen, runs of hyphens collapse, leading and trailing "-" and "_" go
SlugMake(name) == TrimRight(TrimLeft(CollapseDashes(Dashed(name))))

\* GenerateDocumentID without the trim of line 27-29
SlugifiedUncut(name) ==
  LET made == SlugMake(name)
  IN IF made = "" THEN "document" ELSE made

\* GenerateDocumentID, lines 24-34: the slug part of the ID
Slugified(name) ==
  LET made == SlugMake(name)
      cut == IF Len(made) > MaxSlugLength THEN SubSeq(made, 1, MaxSlugLength) ELSE made
  IN IF cut = "" THEN "document" ELSE cut

HexDigit(n) == Char("0123456789abcdef", n + 1)
\* the first SuffixLength characters of hex.EncodeToString(bytes), and
\* fmt.Sprintf("%04x", v): v is the value of the first two bytes
Hex4(v) ==
  HexDigit((v \div 4096) % 16) \o HexDigit((v \div 256) % 16)
    \o HexDigit((v \div 16) % 16) \o HexDigit(v % 16)

\* outcomes of crypto/rand.Read: the value drawn, or RandErr when it fails
RandErr == -1
RandOutcomes == (0..(NumDraws - 1)) \cup {RandErr}

\* generateRandomSuffix with nothing returned when crypto/rand fails
generateRandomSuffixEmpty(r) ==
  IF r = RandErr THEN "" ELSE Hex4(r)

generateRandomSuffix(r) ==
  IF r = RandErr THEN Hex4(SuffixLength \div 2 + 1) ELSE Hex4(r)

\* fmt.Sprintf("%s-%s", slugified, suffix)
CandidateID(slugified, suffix) == slugified \o "-" \o suffix

\* ValidateDocumentID with the limit one character lower
ValidateDocumentIDShort(id) ==
  /\ id # ""
  /\ Contains(id, "-")
  /\ ~(Len(id) > MaxSlugLength + SuffixLength)

ValidateDocumentID(id) ==
  /\ id # ""
  /\ Contains(id, "-")
  /\ ~(Len(id) > MaxSlugLength + SuffixLength + 1)

(***************************************************************************)
(* time.Time and encoding/json                                             *)
(***************************************************************************)
\* time.Now(): a wall-clock reading together with a monotonic reading
TimeNow(w) == [wall |-> w, mono |-> TRUE]
\* Time.MarshalJSON: the RFC 3339 text of the wall clock
MarshalTime(t) == t.wall
\* Time.UnmarshalJSON: the wall clock alone
UnmarshalTime(w) == [wall |-> w, mono |-> FALSE]
\* a JSON string is coerced to valid UTF-8
RECURSIVE MarshalString(_)
MarshalString(s) ==
  IF s = "" THEN ""
  ELSE (IF Head(s) = BadByte THEN ReplacementRune ELSE Head(s)) \o MarshalString(Tail(s))

\* json.MarshalIndent(metadata) and json.Unmarshal(data, &metadata)
MarshalMetadata(m) ==
  Json([name |-> MarshalString(m.Name), created_at |-> MarshalTime(m.CreatedAt),
        updated_at |-> MarshalTime(m.UpdatedAt)])
UnmarshalOk(data) == data.kind = "json"
UnmarshalMetadata(data) ==
  [Name |-> data.meta.name, CreatedAt |-> UnmarshalTime(data.meta.created_at),
   UpdatedAt |-> UnmarshalTime(data.meta.updated_at)]

(***************************************************************************)
(* Storage engine (pkg/storage)                                            *)
(***************************************************************************)
\* Storage.rootDir, as config.LoadConfig created it
RootDir == <<"r">>

GetDocumentPath(id) == Join(RootDir, id)
GetHTMLPath(id) == Append(GetDocumentPath(id), "index.html")
GetMetadataPath(id) == Append(GetDocumentPath(id), "metadata.json")
GetMediaDir(id) == Append(GetDocumentPath(id), "media")

DocumentExists(f, id) == Stat(f, GetHTMLPath(id))

NoDoc == [ID |-> "", Name |-> "", HTMLContent |-> "",
          CreatedAt |-> UnmarshalTime(0), UpdatedAt |-> UnmarshalTime(0)]

\* A fault <<step, how>> makes the filesystem step named step fail; NoFault
\* makes none fail.  A failed os.WriteFile either leaves the file as it was
\* ("fail": the open failed) or leaves it truncated ("trunc": the open
\* succeeded and the write failed).
NoFault == <<"none", "none">>
How(fault, step) == IF fault[1] = step THEN fault[2] ELSE "none"
FaultyWrite(f, p, data, how) ==
  IF ~WriteFileOk(f, p) THEN [fs |-> f, ok |-> FALSE]
  ELSE IF how = "fail" THEN [fs |-> f, ok |-> FALSE]
  ELSE IF how = "trunc" THEN [fs |-> WriteFile(f, p, Raw("")), ok |-> FALSE]
  ELSE [fs |-> WriteFile(f, p, data), ok |-> TRUE]

\* Storage.WriteMetadata
WriteMetadata(f, id, m, how) == FaultyWrite(f, GetMetadataPath(id), MarshalMetadata(m), how)

\* Storage.ReadMetadata that takes any file for metadata
ReadMetadataOkUnparsed(f, id) ==
  IsFile(f, GetMetadataPath(id))

\* Storage.ReadMetadata
ReadMetadataOk(f, id) ==
  IsFile(f, GetMetadataPath(id)) /\ UnmarshalOk(f[GetMetadataPath(id)].data)
ReadMetadata(f, id) == UnmarshalMetadata(f[GetMetadataPath(id)].data)

\* the metadata with created_at taken from the new updated_at
MetadataOfRestamped(doc) ==
  [Name |-> doc.Name, CreatedAt |-> doc.UpdatedAt, UpdatedAt |-> doc.UpdatedAt]
MetadataOf(doc) == [Name |-> doc.Name, CreatedAt |-> doc.CreatedAt, UpdatedAt |-> doc.UpdatedAt]

\* Storage.CreateDocument
StorageCreateDocument(f, doc, fault) ==
  LET f1 == MkdirAll(f, GetDocumentPath(doc.ID))
      f2 == MkdirAll(f1, GetMediaDir(doc.ID))
      w3 == FaultyWrite(f2, GetHTMLPath(doc.ID), Raw(doc.HTMLContent), How(fault, "html"))
      w4 == WriteMetadata(w3.fs, doc.ID, MetadataOf(doc), How(fault, "meta"))
  IN IF fault[1] = "mkdir" \/ ~MkdirAllOk(f, GetDocumentPath(doc.ID))
       THEN [fs |-> f, err |-> "failed to create document directory"]
     ELSE IF fault[1] = "mkmedia" \/ ~MkdirAllOk(f1, GetMediaDir(doc.ID))
       THEN [fs |-> f1, err |-> "failed to create media directory"]
     ELSE IF ~w3.ok THEN [fs |-> w3.fs, err |-> "failed to write HTML file"]
     ELSE IF ~w4.ok THEN [fs |-> w4.fs, err |-> "failed to write metadata"]
     ELSE [fs |-> w4.fs, err |-> "nil"]

\* Storage.UpdateDocument rewriting the metadata alone
StorageUpdateDocumentMetaOnly(f, doc, fault) ==
  LET w2 == WriteMetadata(f, doc.ID, MetadataOf(doc), How(fault, "meta"))
  IN IF ~DocumentExists(f, doc.ID) THEN [fs |-> f, err |-> "does not exist"]
     ELSE IF fault[1] = "html" THEN [fs |-> f, err |-> "failed to write HTML file"]
     ELSE IF ~w2.ok THEN [fs |-> w2.fs, err |-> "failed to write metadata"]
     ELSE [fs |-> w2.fs, err |-> "nil"]

\* Storage.UpdateDocument
StorageUpdateDocument(f, doc, fault) ==
  LET w1 == FaultyWrite(f, GetHTMLPath(doc.ID), Raw(doc.HTMLContent), How(fault, "html"))
      w2 == WriteMetadata(w1.fs, doc.ID, MetadataOf(doc), How(fault, "meta"))
  IN IF ~DocumentExists(f, doc.ID) THEN [fs |-> f, err |-> "does not exist"]
     ELSE IF ~w1.ok THEN [fs |-> w1.fs, err |-> "failed to write HTML file"]
     ELSE IF ~w2.ok THEN [fs |-> w2.fs, err |-> "failed to write metadata"]
     ELSE [fs |-> w2.fs, err |-> "nil"]

\* Storage.GetDocument without the test of existence
StorageGetDocumentUnchecked(f, id, fault) ==
  IF fault[1] = "read" \/ ~IsFile(f, GetHTMLPath(id))
    THEN [doc |-> NoDoc, err |-> "failed to read HTML file"]
  ELSE IF fault[1] = "readmeta" \/ ~ReadMetadataOk(f, id)
    THEN [doc |-> NoDoc, err |-> "failed to read metadata"]
  ELSE LET m == ReadMetadata(f, id) IN
       [doc |-> [ID |-> id, Name |-> m.Name, HTMLContent |-> Text(f[GetHTMLPath(id)].data),
                 CreatedAt |-> m.CreatedAt, UpdatedAt |-> m.UpdatedAt],
        err |-> "nil"]

\* Storage.GetDocument
StorageGetDocument(f, id, fault) ==
  IF ~DocumentExists(f, id) THEN [doc |-> NoDoc, err |-> "does not exist"]
  ELSE IF fault[1] = "read" \/ ~IsFile(f, GetHTMLPath(id))
    THEN [doc |-> NoDoc, err |-> "failed to read HTML file"]
  ELSE IF fault[1] = "readmeta" \/ ~ReadMetadataOk(f, id)
    THEN [doc |-> NoDoc, err |-> "failed to read metadata"]
  ELSE LET m == ReadMetadata(f, id) IN
       [doc |-> [ID |-> id, Name |-> m.Name, HTMLContent |-> Text(f[GetHTMLPath(id)].data),
                 CreatedAt |-> m.CreatedAt, UpdatedAt |-> m.UpdatedAt],
        err |-> "nil"]

\* Storage.ListDocuments: os.ReadDir yields each immediate entry of rootDir
\* once, so the summaries are modelled as a set
ListDocumentsOk(f) == IsDir(f, RootDir)
StorageListDocuments(f) ==
  LET entries == {p \in DOMAIN f : Len(p) = Len(RootDir) + 1 /\ IsPrefix(RootDir, p)}
      names == {p[Len(p)] : p \in {q \in entries : f[q].dir}}
  IN { [ID |-> n, Name |-> ReadMetadata(f, n).Name,
        CreatedAt |-> ReadMetadata(f, n).CreatedAt,
        UpdatedAt |-> ReadMetadata(f, n).UpdatedAt,
        FilePath |-> n \o "/index.html"]
       : n \in {d \in names : DocumentExists(f, d) /\ ReadMetadataOk(f, d)} }

\* Storage.CopyMediaFile; sourcePath is an absolute path string
SourceFile(sourcePath) == Resolve(<<>>, Split(sourcePath))
MediaDest(id, sourcePath) == Join(GetMediaDir(id), Base(sourcePath))
StorageCopyMediaFile(f, id, sourcePath, fault) ==
  LET src == SourceFile(sourcePath)
      dst == MediaDest(id, sourcePath)
      \* os.Create truncates the destination before anything is read
      f1 == WriteFile(f, dst, Raw(""))
  IN IF ~DocumentExists(f, id) THEN [fs |-> f, path |-> "", err |-> "does not exist"]
     ELSE IF fault[1] = "open" \/ ~Exists(f, src)
       THEN [fs |-> f, path |-> "", err |-> "failed to open source file"]
     ELSE IF fault[1] = "create" \/ ~WriteFileOk(f, dst)
       THEN [fs |-> f, path |-> "", err |-> "failed to create destination file"]
     ELSE IF fault[1] = "copy" \/ ~IsFile(f1, src)
       THEN [fs |-> f1, path |-> "", err |-> "failed to copy file"]
     ELSE [fs |-> WriteFile(f1, dst, f1[src].data),
           path |-> "media/" \o Base(sourcePath), err |-> "nil"]

\* Storage.DeleteDocument; when os.RemoveAll fails (fault <<"remove", k>>),
\* the file k and the directories above it are still there
KeptBy(f, p, k) == {q \in DOMAIN f : IsPrefix(p, q) /\ IsPrefix(q, k)}
StorageDeleteDocument(f, id, fault) ==
  LET p == GetDocumentPath(id)
      gone == RemoveAll(f, p)
  IN IF ~DocumentExists(f, id) THEN [fs |-> f, err |-> "does not exist"]
     ELSE IF fault[1] = "remove"
       THEN [fs |-> [q \in DOMAIN gone \cup KeptBy(f, p, fault[2]) |-> f[q]],
             err |-> "failed to delete document directory"]
     ELSE [fs |-> gone, err |-> "nil"]

(***************************************************************************)
(* State                                                                   *)
(***************************************************************************)
VARIABLES
  fs,       \* the filesystem: path -> node
  now,      \* the wall clock, which does not run backwards
  pc,       \* position of the call in flight: "idle", "generate", "store",
            \* "chrome", "pandoc"; "crashed" once a panic has ended the process;
            \* "blocked" while the call waits for a process with no deadline
  call,     \* locals of the call in flight
  last,     \* the call that completed last, with what it returned
  calls,    \* completed calls other than a createDocument that reached storage
  faults,   \* filesystem steps that failed
  created,  \* IDs returned by the successful createDocument calls, in order
  pure,     \* only successful createDocument calls have completed so far
  deleted,  \* IDs deleted successfully that no create has produced since
  threads   \* the goroutines and the child process that run beside the call
            \* in flight, and the calls that run concurrently: name -> locals

vars == <<fs, now, pc, call, last, calls, faults, created, pure, deleted, threads>>

(***************************************************************************)
(* Inputs of the calls                                                     *)
(***************************************************************************)
\* "MY " followed by thirty X: normalizes to a slug longer than MaxSlugLength
LongName == "MY " \o Rep("X", 30)
\* symbols only: normalizes to the empty slug
SymName == "!" \o BadByte
Names == {"", SymName}
Htmls == {"", "<a>", "<b>"}
\* the inputs of the specification of document creation
CreateNames == {"", LongName}
CreateHtmls == {"", "<a>"}

\* an ID that climbs out of rootDir into a sibling directory that holds a
\* document of another store
TraversalID == "../s-1"
\* an ID that ValidateDocumentID rejects
MalformedID == "x"

\* names of the immediate subdirectories of rootDir
RootEntries(f) ==
  {p[Len(p)] : p \in {q \in DOMAIN f : Len(q) = Len(RootDir) + 1 /\ IsPrefix(RootDir, q) /\ f[q].dir}}

\* the IDs a caller passes: those of the documents in the store and of the
\* deleted ones, the media directory of a document, TraversalID, MalformedID
StoreIDs == RootEntries(fs) \cup deleted
NestedIDs == {n \o "/media" : n \in RootEntries(fs)}
CallerIDs == StoreIDs \cup NestedIDs \cup {TraversalID, MalformedID}

\* arguments of updateDocument
UpdateArgs ==
  {<<id, html>> : id \in StoreIDs, html \in Htmls}
    \cup {<<id, "<b>">> : id \in NestedIDs \cup {TraversalID, MalformedID}}

\* arguments of addMedia
MediaArgs ==
  {<<id, src, "image">> : id \in StoreIDs,
                          src \in {"", "/t/p.png", "/t/index.html", "/t/metadata.json", "/t/none"}}
    \cup {<<id, "/t/p.png", "audio">> : id \in RootEntries(fs)}
    \cup {<<id, "/t/p.png", "video">> : id \in NestedIDs \cup {TraversalID, MalformedID}}

OtherMeta == [name |-> "o", created_at |-> 0, updated_at |-> 0]

InitFS ==
  LET files == { << <<"t", "p.png">>, Raw("PNG")>>,
                 << <<"t", "index.html">>, Raw("<i>")>>,
                 << <<"t", "metadata.json">>, Json(OtherMeta)>>,
                 << <<"s-1", "index.html">>, Raw("<s>")>>,
                 << <<"s-1", "metadata.json">>, Json(OtherMeta)>> }
      dirs == {RootDir, <<"t">>, <<"s-1">>}
  IN [p \in dirs \cup {e[1] : e \in files} |->
        IF p \in dirs THEN DirNode
        ELSE FileNode((CHOOSE e \in files : e[1] = p)[2])]

NoCall ==
  [name |-> "", html |-> "", slug |-> "", i |-> 0, id |-> "",
   format |-> "", outputPath |-> "", out |-> <<>>, tiered |-> FALSE,
   chrome |-> 0, chromeKind |-> "", chromeRes |-> "", pandoc |-> 0, procs |-> <<>>,
   evals |-> 0]
NoLast ==
  [op |-> "none", id |-> "", name |-> "", html |-> "", src |-> "", mtype |-> "",
   ok |-> FALSE, err |-> "", doc |-> NoDoc, pre |-> NoDoc, list |-> {}, path |-> "",
   changed |-> {}, existed |-> FALSE,
   format |-> "", outputPath |-> "", out |-> <<>>, tiered |-> FALSE,
   chrome |-> 0, chromeKind |-> "", chromeRes |-> "", pandoc |-> 0, procs |-> <<>>,
   storage |-> <<>>, srcdata |-> Raw(""), injected |-> ""]

\* the paths whose node differs between f and g
Changed(f, g) ==
  {p \in DOMAIN f \cup DOMAIN g : p \notin DOMAIN f \/ p \notin DOMAIN g \/ f[p] # g[p]}

\* nothing runs beside the call in flight
NoThreads == <<>>

Init ==
  /\ fs = InitFS
  /\ now = 0
  /\ pc = "idle"
  /\ call = NoCall
  /\ last = NoLast
  /\ calls = 0
  /\ faults = 0
  /\ created = <<>>
  /\ pure = TRUE
  /\ deleted = {}
  /\ threads = NoThreads

\* the filesystem steps that can be made to fail
CreateFaults ==
  { <<"mkdir", "fail">>, <<"mkmedia", "fail">>, <<"html", "fail">>, <<"html", "trunc">>,
    <<"meta", "fail">>, <<"meta", "trunc">> }
UpdateFaults ==
  { <<"read", "fail">>, <<"readmeta", "fail">>, <<"html", "fail">>, <<"html", "trunc">>,
    <<"meta", "fail">>, <<"meta", "trunc">> }
GetFaults == { <<"read", "fail">>, <<"readmeta", "fail">> }
ListFaults == { <<"readdir", "fail">> }
MediaFaults == { <<"open", "fail">>, <<"create", "fail">>, <<"copy", "fail">> }
\* the files below a document directory, one of which os.RemoveAll fails
\* to remove
DeleteFaults(f, id) ==
  { <<"remove", q>> : q \in {r \in DOMAIN f : IsPrefix(GetDocumentPath(id), r) /\ ~f[r].dir} }

\* the error each failing step is reported as
ErrOf(fault) ==
  CASE fault[1] = "mkdir" -> "failed to create document directory"
    [] fault[1] = "mkmedia" -> "failed to create media directory"
    [] fault[1] = "html" -> "failed to write HTML file"
    [] fault[1] = "meta" -> "failed to write metadata"
    [] fault[1] = "read" -> "failed to read HTML file"
    [] fault[1] = "readmeta" -> "failed to read metadata"
    [] fault[1] = "readdir" -> "failed to read root directory"
    [] fault[1] = "open" -> "failed to open source file"
    [] fault[1] = "create" -> "failed to create destination file"
    [] fault[1] = "copy" -> "failed to copy file"
    [] fault[1] = "remove" -> "failed to delete document directory"
    [] fault[1] = "outdir" -> "failed to create output directory"
    [] fault[1] = "tmp" -> "failed to write temp HTML file"
    [] OTHER -> "nil"

\* a step can be made to fail only when the call reaches it, and each such
\* failure uses up one of the MaxFaults failures
Reached(fault, err) == fault = NoFault \/ (faults < MaxFaults /\ err = ErrOf(fault))
Spent(fault) == IF fault = NoFault THEN faults ELSE faults + 1

(***************************************************************************)
(* Document service (pkg/document/service)                                 *)
(***************************************************************************)
\* Service.CreateDocument, lines 35-44: validation, then the slug of the ID
\* (GenerateDocumentID, lines 24-34)
CreateDocument(name, html) ==
  /\ pc = "idle"
  /\ IF name = "" \/ html = ""
     THEN /\ calls' = calls + 1
          /\ last' = [NoLast EXCEPT !.op = "create", !.name = name, !.html = html,
                        !.err = IF name = "" THEN "document name cannot be empty"
                                ELSE "HTML content cannot be empty"]
          /\ pure' = FALSE
          /\ UNCHANGED <<pc, call>>
     ELSE /\ pc' = "generate"
          /\ call' = [NoCall EXCEPT !.name = name, !.html = html, !.slug = Slugified(name)]
          /\ UNCHANGED <<last, pure, calls>>
  /\ UNCHANGED <<fs, now, faults, created, deleted, threads>>

\* GenerateDocumentID, lines 37-44: one iteration of the retry loop
GenerateAttempt(r) ==
  /\ pc = "generate"
  /\ call.i < MaxAttempts
  /\ LET id == CandidateID(call.slug, generateRandomSuffix(r)) IN
       IF ~DocumentExists(fs, id)
       THEN /\ pc' = "store"
            /\ call' = [call EXCEPT !.id = id, !.evals = call.evals + 1]
       ELSE /\ pc' = pc
            /\ call' = [call EXCEPT !.i = call.i + 1, !.evals = call.evals + 1]
  /\ UNCHANGED <<fs, now, last, calls, faults, created, pure, deleted, threads>>

\* GenerateDocumentID, lines 46-48: the longer suffix after the last attempt
GenerateFallback(r1, r2) ==
  /\ pc = "generate"
  /\ ~(call.i < MaxAttempts)
  /\ pc' = "store"
  /\ call' = [call EXCEPT
       !.id = CandidateID(call.slug, generateRandomSuffix(r1) \o generateRandomSuffix(r2))]
  /\ UNCHANGED <<fs, now, last, calls, faults, created, pure, deleted, threads>>

\* Service.CreateDocument, lines 46-59: stamp the document with the time t
\* that time.Now() returns and persist it
StoreDocument(t, fault) ==
  /\ pc = "store"
  /\ LET doc == [ID |-> call.id, Name |-> call.name, HTMLContent |-> call.html,
                 CreatedAt |-> TimeNow(t), UpdatedAt |-> TimeNow(t)]
         res == StorageCreateDocument(fs, doc, fault)
         ok == res.err = "nil"
     IN /\ Reached(fault, res.err)
        /\ fs' = res.fs
        /\ now' = t
        /\ faults' = Spent(fault)
        /\ last' = [NoLast EXCEPT !.op = "create", !.name = call.name, !.html = call.html,
                      !.ok = ok, !.err = res.err, !.id = IF ok THEN call.id ELSE "",
                      !.doc = IF ok THEN doc ELSE NoDoc,
                      !.changed = Changed(fs, res.fs),
                      !.existed = DocumentExists(fs, call.id),
                      !.storage = <<"DocumentExists", "CreateDocument">>]
        /\ created' = IF ok THEN Append(created, call.id) ELSE created
        /\ pure' = (pure /\ ok)
        /\ deleted' = deleted \ {call.id}
  /\ pc' = "idle"
  /\ call' = NoCall
  /\ UNCHANGED <<calls, threads>>

\* Service.UpdateDocument; t is the time that time.Now() returns
UpdateDocument(id, html) ==
  /\ pc = "idle"
  /\ calls' = calls + 1
  /\ LET base == [NoLast EXCEPT !.op = "update", !.id = id, !.html = html,
                    !.existed = DocumentExists(fs, id)]
     IN IF ~ValidateDocumentID(id)
          THEN /\ last' = [base EXCEPT !.err = "invalid document ID"]
               /\ UNCHANGED <<fs, now, faults>>
        ELSE IF html = ""
          THEN /\ last' = [base EXCEPT !.err = "HTML content cannot be empty"]
               /\ UNCHANGED <<fs, now, faults>>
        ELSE \E fault \in UpdateFaults \cup {NoFault} :
               LET got == StorageGetDocument(fs, id, fault) IN
                 IF got.err # "nil"
                 THEN /\ Reached(fault, got.err)
                      /\ last' = [base EXCEPT !.err = got.err, !.storage = <<"GetDocument">>]
                      /\ faults' = Spent(fault)
                      /\ UNCHANGED <<fs, now>>
                 ELSE \E t \in now..MaxTime :
                        LET doc == [got.doc EXCEPT !.HTMLContent = html, !.UpdatedAt = TimeNow(t)]
                            res == StorageUpdateDocument(fs, doc, fault)
                        IN /\ Reached(fault, res.err)
                           /\ fs' = res.fs
                           /\ now' = t
                           /\ faults' = Spent(fault)
                           /\ last' = [base EXCEPT !.ok = (res.err = "nil"), !.err = res.err,
                                         !.doc = IF res.err = "nil" THEN doc ELSE NoDoc,
                                         !.pre = got.doc, !.changed = Changed(fs, res.fs),
                                         !.storage = <<"GetDocument", "UpdateDocument">>]
  /\ pure' = FALSE
  /\ UNCHANGED <<pc, call, created, deleted, threads>>

\* Service.GetDocument without the check of the ID
ServiceGetDocumentUnchecked(f, id, fault) ==
  LET got == StorageGetDocument(f, id, fault)
  IN [doc |-> got.doc, err |-> got.err, storage |-> <<"GetDocument">>]

\* Service.GetDocument: what the call returns from the filesystem f, and the
\* storage operations it invokes
ServiceGetDocument(f, id, fault) ==
  IF ~ValidateDocumentID(id)
    THEN [doc |-> NoDoc, err |-> "invalid document ID", storage |-> <<>>]
  ELSE LET got == StorageGetDocument(f, id, fault)
       IN [doc |-> got.doc, err |-> got.err, storage |-> <<"GetDocument">>]

\* Service.GetDocument, as a call
GetDocument(id) ==
  /\ pc = "idle"
  /\ calls' = calls + 1
  /\ \E fault \in GetFaults \cup {NoFault} :
       LET got == ServiceGetDocument(fs, id, fault) IN
         /\ Reached(fault, got.err)
         /\ faults' = Spent(fault)
         /\ last' = [NoLast EXCEPT !.op = "get", !.id = id, !.existed = DocumentExists(fs, id),
                       !.ok = (got.err = "nil"), !.err = got.err, !.doc = got.doc,
                       !.storage = got.storage]
  /\ pure' = FALSE
  /\ UNCHANGED <<fs, now, pc, call, created, deleted, threads>>

\* Service.ListDocuments
ListDocuments ==
  /\ pc = "idle"
  /\ calls' = calls + 1
  /\ \E fault \in ListFaults \cup {NoFault} :
       /\ faults' = Spent(fault)
       /\ IF fault[1] = "readdir" \/ ~ListDocumentsOk(fs)
          THEN /\ Reached(fault, "failed to read root directory")
               /\ last' = [NoLast EXCEPT !.op = "list", !.err = "failed to read root directory",
                             !.storage = <<"ListDocuments">>]
          ELSE last' = [NoLast EXCEPT !.op = "list", !.ok = TRUE, !.err = "nil",
                          !.list = StorageListDocuments(fs),
                          !.storage = <<"ListDocuments">>]
  /\ pure' = FALSE
  /\ UNCHANGED <<fs, now, pc, call, created, deleted, threads>>

\* Service.AddMedia
AddMedia(id, sourcePath, mediaType) ==
  /\ pc = "idle"
  /\ calls' = calls + 1
  /\ LET base == [NoLast EXCEPT !.op = "addMedia", !.id = id, !.src = sourcePath,
                    !.mtype = mediaType, !.existed = DocumentExists(fs, id),
                    \* what the source file holds when the call starts
                    !.srcdata = IF IsFile(fs, SourceFile(sourcePath))
                                  THEN fs[SourceFile(sourcePath)].data ELSE Raw("")]
     IN IF ~ValidateDocumentID(id)
          THEN /\ last' = [base EXCEPT !.err = "invalid document ID"]
               /\ UNCHANGED <<fs, faults>>
        ELSE IF sourcePath = ""
          THEN /\ last' = [base EXCEPT !.err = "source path cannot be empty"]
               /\ UNCHANGED <<fs, faults>>
        ELSE IF mediaType # "image" /\ mediaType # "video"
          THEN /\ last' = [base EXCEPT !.err = "invalid media type"]
               /\ UNCHANGED <<fs, faults>>
        ELSE \E fault \in MediaFaults \cup {NoFault} :
               LET res == StorageCopyMediaFile(fs, id, sourcePath, fault) IN
                 /\ Reached(fault, res.err)
                 /\ fs' = res.fs
                 /\ faults' = Spent(fault)
                 /\ last' = [base EXCEPT !.ok = (res.err = "nil"), !.err = res.err,
                               !.path = res.path, !.changed = Changed(fs, res.fs),
                               !.storage = <<"CopyMediaFile">>]
  /\ pure' = FALSE
  /\ UNCHANGED <<now, pc, call, created, deleted, threads>>

\* Service.DeleteDocument
DeleteDocument(id) ==
  /\ pc = "idle"
  /\ calls' = calls + 1
  /\ LET base == [NoLast EXCEPT !.op = "delete", !.id = id, !.existed = DocumentExists(fs, id)]
     IN IF ~ValidateDocumentID(id)
          THEN /\ last' = [base EXCEPT !.err = "invalid document ID"]
               /\ UNCHANGED <<fs, faults, deleted>>
        ELSE \E fault \in DeleteFaults(fs, id) \cup {NoFault} :
               LET res == StorageDeleteDocument(fs, id, fault) IN
                 /\ Reached(fault, res.err)
                 /\ fs' = res.fs
                 /\ faults' = Spent(fault)
                 /\ last' = [base EXCEPT !.ok = (res.err = "nil"), !.err = res.err,
                               !.changed = Changed(fs, res.fs),
                               !.storage = <<"DeleteDocument">>]
                 /\ deleted' = IF res.err = "nil" THEN deleted \cup {id} ELSE deleted
  /\ pure' = FALSE
  /\ UNCHANGED <<now, pc, call, created, threads>>

(***************************************************************************)
(* Export pipeline (pkg/export)                                            *)
(***************************************************************************)
\* strings.ToLower
RECURSIVE ToLowerStr(_)
\* the three bytes of the UTF-8 encoding of U+FFFD, each written "~"
ReplacementUTF8 == "~~~"

\* strings.ToLower: a string that is not ASCII goes through strings.Map,
\* which writes U+FFFD (three bytes) for each byte that is not valid UTF-8
ToLowerStr(s) ==
  IF s = "" THEN ""
  ELSE (IF Head(s) = BadByte THEN ReplacementUTF8 ELSE ToLower(Head(s))) \o ToLowerStr(Tail(s))

\* strings.Index(s, sub): the 0-based index of the first occurrence, or -1
Index(s, sub) ==
  LET hits == {i \in 0..(Len(s) - Len(sub)) : SubSeq(s, i + 1, i + Len(sub)) = sub}
  IN IF hits = {} THEN -1 ELSE CHOOSE i \in hits : \A j \in hits : i <= j

\* the style block that InjectDefaultPrintStyles inserts, abridged
defaultPrintStyles == "<style media=print>@media print{}</style>"
Newline == "|"

\* the slice expressions of lines 312 and 315 panic when the index found in
\* the lowercased string lies beyond the end of htmlContent
InjectPanics(htmlContent) ==
  LET lower == ToLowerStr(htmlContent)
      head == Index(lower, "</head>")
      body == Index(lower, "<body")
  IN IF head # -1 THEN head > Len(htmlContent)
     ELSE body # -1 /\ body > Len(htmlContent)

InjectDefaultPrintStyles(htmlContent) ==
  LET lower == ToLowerStr(htmlContent)
      n == Len(htmlContent)
      head == Index(lower, "</head>")
      body == Index(lower, "<body")
      endIdx == IF body = -1 THEN -1 ELSE Index(SubSeq(htmlContent, body + 1, n), ">")
      insertPos == body + endIdx + 1
  IN IF head # -1
       THEN SubSeq(htmlContent, 1, head) \o defaultPrintStyles \o Newline
              \o SubSeq(htmlContent, head + 1, n)
     ELSE IF body # -1 /\ endIdx # -1
       THEN SubSeq(htmlContent, 1, insertPos) \o Newline \o defaultPrintStyles \o Newline
              \o SubSeq(htmlContent, insertPos + 1, n)
     ELSE defaultPrintStyles \o Newline \o htmlContent

\* the explicit output paths are absolute: filepath.Clean of one
Clean(path) == Resolve(<<>>, Split(path))

\* ExportDocument, lines 45-53: the output path
DefaultOutputPath(id, format) == Join(GetDocumentPath(id), id \o "." \o format)
OutputPathOf(id, format, outputPath) ==
  IF outputPath = "" THEN DefaultOutputPath(id, format) ELSE Clean(outputPath)

\* exportHTML writing the content with the print styles injected
exportHTMLStyled(f, doc, out, how) ==
  FaultyWrite(f, out, Raw(InjectDefaultPrintStyles(doc.HTMLContent)), how)

\* exportHTML
exportHTML(f, doc, out, how) == FaultyWrite(f, out, Raw(doc.HTMLContent), how)

GetTempPath(id) == Append(GetDocumentPath(id), "temp_export.html")

\* what the renderers produce
PdfOf(html) == Raw("%PDF")
DocxOf(html) == Raw("PK")

\* utils.OutputFile(p, data): creates the parent directories and the file
OutputFileOk(f, p) == MkdirAllOk(f, Parent(p)) /\ WriteFileOk(MkdirAll(f, Parent(p)), p)
OutputFile(f, p, data) == WriteFile(MkdirAll(f, Parent(p)), p, data)

ExportFaults ==
  { <<"read", "fail">>, <<"readmeta", "fail">>, <<"outdir", "fail">>,
    <<"html", "fail">>, <<"html", "trunc">> }
TempFaults == { <<"tmp", "fail">>, <<"tmp", "trunc">> }

\* outcomes of the browser: "launch" is a browser that is unavailable or
\* does not start, "connect" a failed connection, "page" and "load" a failed
\* page load, "pdf" a failed PDF generation, "timeout" the expiry of the
\* context, "ok" a rendered PDF
ChromeKinds == {"ok", "launch", "connect", "page", "load", "pdf", "timeout"}
ChromeFailures == ChromeKinds \ {"ok"}
\* a browser process that starts and never reports its control URL: the
\* launcher is built without the context (lines 105-117), so MustLaunch waits
\* for it with no deadline
ChromeHangs == {"launchhang"}
\* outcomes of the converter: "missing" is a probe that fails
PandocKinds == {"ok", "missing", "fail", "timeout"}
\* a probe process ("pandoc --version") that never exits: checkPandoc waits
\* for it with cmd.Run(), which has no deadline
PandocHangs == {"probehang"}

\* Exporter.ExportDocument up to the switch, and exportHTML; tiered tells the
\* exporter that has the browser tier from the one that has not
ExportStart(id, format, outputPath, tiered) ==
  /\ pc = "idle"
  /\ calls' = calls + 1
  /\ pure' = FALSE
  /\ \E fault \in ExportFaults \cup {NoFault} :
       LET got == ServiceGetDocument(fs, id, fault)
           out == OutputPathOf(id, format, outputPath)
           base == [NoLast EXCEPT !.op = "export", !.id = id, !.format = format,
                      !.outputPath = outputPath, !.tiered = tiered,
                      !.existed = DocumentExists(fs, id), !.storage = got.storage]
           f1 == IF outputPath = "" THEN fs ELSE MkdirAll(fs, Parent(out))
           w == exportHTML(f1, got.doc, out, How(fault, "html"))
           Return(f, ok, err) ==
             /\ fs' = f
             /\ last' = [base EXCEPT !.ok = ok, !.err = err, !.out = IF ok THEN out ELSE <<>>,
                           !.changed = Changed(fs, f)]
             /\ UNCHANGED <<pc, call>>
           Enter(tier) ==
             /\ fs' = f1
             /\ pc' = tier
             /\ call' = [NoCall EXCEPT !.id = id, !.html = got.doc.HTMLContent,
                           !.format = format, !.outputPath = outputPath, !.out = out,
                           !.tiered = tiered]
             /\ UNCHANGED last
       IN /\ faults' = Spent(fault)
          /\ IF got.err # "nil"
               THEN Reached(fault, got.err) /\ Return(fs, FALSE, "failed to get document")
             ELSE IF outputPath # "" /\ (fault[1] = "outdir" \/ ~MkdirAllOk(fs, Parent(out)))
               THEN /\ Reached(fault, "failed to create output directory")
                    /\ Return(fs, FALSE, "failed to create output directory")
             ELSE IF format = "html"
               THEN /\ Reached(fault, IF w.ok THEN "nil" ELSE "failed to write HTML file")
                    /\ Return(w.fs, w.ok, IF w.ok THEN "nil" ELSE "failed to write HTML file")
             ELSE IF format = "pdf"
               THEN fault = NoFault /\ Enter(IF tiered THEN "chrome" ELSE "pandoc")
             ELSE IF format = "docx"
               THEN fault = NoFault /\ Enter("pandoc")
             ELSE fault = NoFault /\ Return(f1, FALSE, "unsupported format")
  /\ UNCHANGED <<now, created, deleted, threads>>

\* Exporter.ExportDocument of the exporter with the browser tier
ExportDocument(id, format, outputPath) == ExportStart(id, format, outputPath, TRUE)

\* Exporter.ExportDocument of the exporter without it (pkg/export/exporter.go)
ExportDocumentPandocOnly(id, format) == ExportStart(id, format, "", FALSE)

\* the export call in flight, whose locals have become c, returns
ExportReturn(c, f, ok, err) ==
  /\ fs' = f
  /\ pc' = "idle"
  /\ call' = NoCall
  /\ last' = [NoLast EXCEPT !.op = "export", !.id = c.id, !.format = c.format,
                !.outputPath = c.outputPath, !.tiered = c.tiered,
                !.ok = ok, !.err = err, !.out = IF ok THEN c.out ELSE <<>>,
                !.changed = Changed(fs, f),
                !.chrome = c.chrome, !.chromeKind = c.chromeKind,
                !.chromeRes = c.chromeRes, !.pandoc = c.pandoc, !.procs = c.procs,
                !.storage = <<"GetDocument">>]

\* exportPDF, lines 80-82, and exportPDFWithChrome: the browser tier.  The
\* launcher's MustLaunch panics when the browser is unavailable or does not
\* start; the deferred os.Remove runs while the panic unwinds.
ExportPDFWithChrome(kind, fault) ==
  /\ pc = "chrome"
  /\ LET tmp == GetTempPath(call.id)
         w == FaultyWrite(fs, tmp, Raw(InjectDefaultPrintStyles(call.html)), How(fault, "tmp"))
         rendered == kind = "ok" /\ OutputFileOk(w.fs, call.out)
         f2 == IF rendered THEN OutputFile(w.fs, call.out, PdfOf(call.html)) ELSE w.fs
         f3 == Remove(f2, tmp)
         launched == IF kind = "launch" THEN call.procs ELSE Append(call.procs, "chrome")
     IN /\ Reached(fault, IF w.ok THEN "nil" ELSE "failed to write temp HTML file")
        /\ faults' = Spent(fault)
        /\ IF InjectPanics(call.html)
             THEN /\ fault = NoFault
                  /\ call' = [call EXCEPT !.chrome = @ + 1, !.chromeKind = "inject",
                                !.chromeRes = "panic"]
                  /\ pc' = "crashed"
                  /\ UNCHANGED <<fs, last>>
           ELSE IF ~w.ok
             THEN /\ call' = [call EXCEPT !.chrome = @ + 1, !.chromeKind = "tmp",
                                !.chromeRes = "failed"]
                  /\ fs' = w.fs
                  /\ pc' = "pandoc"
                  /\ UNCHANGED last
           ELSE IF kind = "launch"
             THEN /\ call' = [call EXCEPT !.chrome = @ + 1, !.chromeKind = kind,
                                !.chromeRes = "panic"]
                  /\ fs' = f3
                  /\ pc' = "crashed"
                  /\ UNCHANGED last
           ELSE IF kind \in ChromeHangs
             THEN /\ call' = [call EXCEPT !.chrome = @ + 1, !.chromeKind = kind,
                                !.chromeRes = "blocked", !.procs = launched]
                  /\ fs' = w.fs
                  /\ pc' = "blocked"
                  /\ UNCHANGED last
           ELSE IF rendered
             THEN ExportReturn([call EXCEPT !.chrome = @ + 1, !.chromeKind = kind,
                                 !.chromeRes = "ok", !.procs = launched],
                               f3, TRUE, "nil")
           ELSE /\ call' = [call EXCEPT !.chrome = @ + 1,
                              !.chromeKind = IF kind = "ok" THEN "output" ELSE kind,
                              !.chromeRes = "failed", !.procs = launched]
                /\ fs' = f3
                /\ pc' = "pandoc"
                /\ UNCHANGED last
  /\ UNCHANGED <<now, calls, created, pure, deleted, threads>>

\* the body of exportPDFWithPandoc and exportDOCX with the temporary file
\* written before the probe
PandocTierWriteFirst(kind, fault, produced) ==
  LET tmp == GetTempPath(call.id)
      w == FaultyWrite(fs, tmp, Raw(call.html), How(fault, "tmp"))
      converted == kind = "ok" /\ WriteFileOk(w.fs, call.out)
      f2 == IF converted THEN WriteFile(w.fs, call.out, produced) ELSE w.fs
      f3 == Remove(f2, tmp)
      probed == Append(call.procs, "pandoc --version")
      c1 == [call EXCEPT !.pandoc = @ + 1, !.procs = probed]
      c2 == [c1 EXCEPT !.procs = Append(probed, "pandoc")]
  IN IF kind \in PandocHangs
       THEN /\ fault = NoFault
            /\ call' = c1
            /\ pc' = "blocked"
            /\ fs' = w.fs
            /\ UNCHANGED last
     ELSE IF ~w.ok
       THEN /\ Reached(fault, "failed to write temp HTML file")
            /\ ExportReturn(c1, w.fs, FALSE, "failed to write temp HTML file")
     ELSE IF kind = "missing"
       THEN fault = NoFault /\ ExportReturn(c1, w.fs, FALSE, "pandoc not found")
     ELSE IF converted
       THEN fault = NoFault /\ ExportReturn(c2, f3, TRUE, "nil")
     ELSE /\ fault = NoFault
          /\ ExportReturn(c2, f3, FALSE, IF kind = "timeout" THEN "pandoc conversion timed out"
                                         ELSE "conversion failed")

\* checkPandoc, the temporary file and runPandoc: the body that
\* exportPDFWithPandoc and exportDOCX share; produced is what the converter
\* writes to the output path
PandocTier(kind, fault, produced) ==
  LET tmp == GetTempPath(call.id)
      w == FaultyWrite(fs, tmp, Raw(call.html), How(fault, "tmp"))
      converted == kind = "ok" /\ WriteFileOk(w.fs, call.out)
      f2 == IF converted THEN WriteFile(w.fs, call.out, produced) ELSE w.fs
      f3 == Remove(f2, tmp)
      probed == Append(call.procs, "pandoc --version")
      c1 == [call EXCEPT !.pandoc = @ + 1, !.procs = probed]
      c2 == [c1 EXCEPT !.procs = Append(probed, "pandoc")]
  IN IF kind \in PandocHangs
       THEN /\ fault = NoFault
            /\ call' = c1
            /\ pc' = "blocked"
            /\ UNCHANGED <<fs, last>>
     ELSE IF kind = "missing"
       THEN fault = NoFault /\ ExportReturn(c1, fs, FALSE, "pandoc not found")
     ELSE IF ~w.ok
       THEN /\ Reached(fault, "failed to write temp HTML file")
            /\ ExportReturn(c1, w.fs, FALSE, "failed to write temp HTML file")
     ELSE IF converted
       THEN fault = NoFault /\ ExportReturn(c2, f3, TRUE, "nil")
     ELSE /\ fault = NoFault
          /\ ExportReturn(c2, f3, FALSE, IF kind = "timeout" THEN "pandoc conversion timed out"
                                         ELSE "conversion failed")

\* exportPDF, line 85, and exportPDFWithPandoc: the converter tier (and
\* exportPDF of the exporter without the browser tier)
ExportPDFWithPandoc(kind, fault) ==
  /\ pc = "pandoc"
  /\ call.format = "pdf"
  /\ PandocTier(kind, fault, PdfOf(call.html))
  /\ faults' = Spent(fault)
  /\ UNCHANGED <<now, calls, created, pure, deleted, threads>>

\* exportDOCX
ExportDOCX(kind, fault) ==
  /\ pc = "pandoc"
  /\ call.format = "docx"
  /\ PandocTier(kind, fault, DocxOf(call.html))
  /\ faults' = Spent(fault)
  /\ UNCHANGED <<now, calls, created, pure, deleted, threads>>

(***************************************************************************)
(* Specification of document creation: createDocument calls alone          *)
(***************************************************************************)
NextCreate ==
  \/ Len(created) + calls < MaxCreates /\ \E name \in CreateNames, html \in CreateHtmls :
                                              CreateDocument(name, html)
  \/ \E r \in RandOutcomes : GenerateAttempt(r)
  \/ \E r1, r2 \in RandOutcomes : GenerateFallback(r1, r2)
  \/ \E t \in now..MaxTime : StoreDocument(t, NoFault)

SpecCreate == Init /\ [][NextCreate]_vars

(***************************************************************************)
(* Specification of the whole service.  It follows one document at a time: *)
(* a document is created when the store holds none; stores of several      *)
(* documents are the subject of SpecCreate.                                *)
(***************************************************************************)
Next ==
  \/ calls < MaxCalls /\ RootEntries(fs) = {}
       /\ \E name \in Names, html \in Htmls : CreateDocument(name, html)
  \/ \E r \in RandOutcomes : GenerateAttempt(r)
  \/ \E t \in now..MaxTime, fault \in CreateFaults \cup {NoFault} : StoreDocument(t, fault)
  \/ calls < MaxCalls /\ \E a \in UpdateArgs : UpdateDocument(a[1], a[2])
  \/ calls < MaxCalls /\ \E id \in CallerIDs : GetDocument(id)
  \/ calls < MaxCalls /\ ListDocuments
  \/ calls < MaxCalls /\ \E a \in MediaArgs : AddMedia(a[1], a[2], a[3])
  \/ calls < MaxCalls /\ \E id \in CallerIDs : DeleteDocument(id)

Spec == Init /\ [][Next]_vars

(***************************************************************************)
(* Specification of updates: a document is created and updated, under its  *)
(* own ID, TraversalID or an ID that names no document                     *)
(***************************************************************************)
UpdateIDs == RootEntries(fs) \cup {TraversalID, "no-1"}
UpdateHtmls == {"<a>", "<b>"}

NextUpdate ==
  \/ calls = 0 /\ RootEntries(fs) = {} /\ CreateDocument(SymName, "<a>")
  \/ GenerateAttempt(0)
  \/ \E t \in now..MaxTime : StoreDocument(t, NoFault)
  \/ calls < MaxUpdates /\ \E id \in UpdateIDs, html \in UpdateHtmls : UpdateDocument(id, html)

SpecUpdate == Init /\ [][NextUpdate]_vars

(***************************************************************************)
(* Specification of input validation: every operation of the service is    *)
(* called with arguments it rejects and with arguments it accepts          *)
(***************************************************************************)
\* an ID with a hyphen that is one character too long
OverlongID == Rep("a", MaxSlugLength + 1) \o "-abcd"
\* besides the IDs that fail validation: the ID of the document, an ID that
\* names nothing, the ID of the media directory of the document (a directory
\* without index.html)
ValidationIDs == RootEntries(fs) \cup NestedIDs \cup {"", MalformedID, OverlongID, "no-1"}
ValidationSources == {"", "/t/p.png"}
MediaTypes == {"image", "video", "audio"}

NextValidation ==
  \/ calls < MaxCalls /\ RootEntries(fs) = {}
       /\ \E name \in Names, html \in {"", "<a>"} : CreateDocument(name, html)
  \/ GenerateAttempt(0)
  \/ StoreDocument(now, NoFault)
  \/ calls < MaxCalls /\ \E id \in ValidationIDs, html \in {"", "<b>"} : UpdateDocument(id, html)
  \/ calls < MaxCalls /\ \E id \in ValidationIDs : GetDocument(id)
  \/ calls < MaxCalls /\ \E id \in ValidationIDs, src \in ValidationSources, mtype \in MediaTypes :
                           AddMedia(id, src, mtype)
  \/ calls < MaxCalls /\ \E id \in ValidationIDs : DeleteDocument(id)

SpecValidation == Init /\ [][NextValidation]_vars

(***************************************************************************)
(* Specification of media: a document is created, updated and given media  *)
(***************************************************************************)
\* the path of the file that an earlier addMedia of p.png stored
StoredMedia == {"/r/" \o id \o "/media/p.png" : id \in RootEntries(fs)}
\* two files named index.html with different contents, a file that does not
\* exist, a stored media file
MediaSources == {"/t/p.png", "/t/index.html", "/s-1/index.html", "/t/none"} \cup StoredMedia

NextMedia ==
  \/ calls = 0 /\ RootEntries(fs) = {} /\ CreateDocument(SymName, "<a>")
  \/ GenerateAttempt(0)
  \/ \E t \in now..MaxTime : StoreDocument(t, NoFault)
  \/ calls < MaxMediaCalls /\ \E id \in RootEntries(fs) : UpdateDocument(id, "<b>")
  \/ calls < MaxMediaCalls /\ \E id \in RootEntries(fs), src \in MediaSources :
                                AddMedia(id, src, "image")

SpecMedia == Init /\ [][NextMedia]_vars

(***************************************************************************)
(* Specification of ID generation and validation: createDocument over      *)
(* names of many shapes, getDocument over IDs around the length limit      *)
(***************************************************************************)
NameAlphabet == {"A", "b", "-", " ", "!"}
\* every name of at most two characters of NameAlphabet
ShortNames ==
  {""} \cup NameAlphabet \cup {a \o b : a, b \in NameAlphabet}
\* names whose slug has 29, 30, 31 and 33 characters; one whose thirtieth
\* character becomes a hyphen; one that slug.Make shortens to 30
LongNames ==
  {Rep("x", 29), Rep("x", 30), Rep("x", 31), LongName, Rep("x", 29) \o " y",
   "!" \o Rep("x", 30) \o "!"}
IdgenNames == ShortNames \cup LongNames
\* IDs of 34, 35 and 36 characters with a hyphen, of 35 and 36 without,
\* shorter ones with and without
ValidateIDs ==
  {"", MalformedID, "-", "a-b", Rep("a", 33) \o "-", Rep("a", 34) \o "-", OverlongID,
   Rep("a", 35), Rep("a", 36), "-" \o Rep("a", 35)}

NextIdgen ==
  \/ calls = 0 /\ RootEntries(fs) = {} /\ \E name \in IdgenNames : CreateDocument(name, "<a>")
  \/ \E r \in RandOutcomes : GenerateAttempt(r)
  \/ StoreDocument(now, NoFault)
  \/ calls < MaxIdgenCalls /\ \E id \in ValidateIDs \cup RootEntries(fs) : GetDocument(id)

SpecIdgen == Init /\ [][NextIdgen]_vars

(***************************************************************************)
(* Specification of the retry loop: documents of one name are created; a   *)
(* creation that keeps drawing an ID that is taken runs the loop to its end *)
(***************************************************************************)
NextRetry ==
  \/ Len(created) < MaxRetryCreates /\ CreateDocument(SymName, "<a>")
  \/ \E r \in RandOutcomes : GenerateAttempt(r)
  \/ \E r1, r2 \in RandOutcomes : GenerateFallback(r1, r2)
  \/ StoreDocument(now, NoFault)

SpecRetry == Init /\ [][NextRetry]_vars

(***************************************************************************)
(* Specification of listing: documents are created, some of them only in   *)
(* part; an export puts a plain file into rootDir; the store is listed     *)
(***************************************************************************)
ListNames == {SymName, "A"}
\* an output path for an export that lies directly in rootDir
RootFile == "/r/f-1"

NextList ==
  \/ \E name \in ListNames :
       /\ CandidateID(Slugified(name), generateRandomSuffix(0)) \notin RootEntries(fs)
       /\ CreateDocument(name, "<a>")
  \/ GenerateAttempt(0)
  \/ \E fault \in CreateFaults \cup {NoFault} : StoreDocument(now, fault)
  \/ calls < MaxListCalls /\ ListDocuments
  \/ calls < MaxListCalls /\ \E id \in RootEntries(fs) : ExportDocument(id, "html", RootFile)

SpecList == Init /\ [][NextList]_vars

(***************************************************************************)
(* Specification of print-style injection: exportPDFWithChrome's call of   *)
(* InjectDefaultPrintStyles (line 94), applied once to an HTML string made *)
(* of at most three pieces                                                 *)
(***************************************************************************)
HtmlPieces == {"</head>", "</HeAD>", "<BODY a>", "<body", "x>", BadByte, Rep(BadByte, 4)}
InjectHtmls ==
  HtmlPieces \cup {a \o b : a, b \in HtmlPieces}
    \cup {a \o b \o c : a, b, c \in HtmlPieces}

ApplyInject(html) ==
  /\ pc = "idle"
  /\ calls = 0
  /\ calls' = calls + 1
  /\ pure' = FALSE
  /\ IF InjectPanics(html)
       THEN /\ pc' = "crashed"
            /\ last' = [NoLast EXCEPT !.op = "inject", !.html = html]
       ELSE /\ pc' = pc
            /\ last' = [NoLast EXCEPT !.op = "inject", !.html = html, !.ok = TRUE,
                          !.injected = InjectDefaultPrintStyles(html)]
  /\ UNCHANGED <<fs, now, call, faults, created, deleted, threads>>

NextInject == \E html \in InjectHtmls : ApplyInject(html)

SpecInject == Init /\ [][NextInject]_vars

(***************************************************************************)
(* Specification of export: a document is created, then exported          *)
(***************************************************************************)
ExportHtml == "<p></HEAD>"
Formats == {"html", "pdf", "docx", "txt"}
\* explicit output paths: none, one below directories that do not exist yet,
\* one below a file, one that names the metadata.json of the stored document
OutputPaths == {"", "/o/d/e", "/t/p.png/e", "/r/document-0000/metadata.json"}
ExportIDs == RootEntries(fs) \cup {TraversalID, MalformedID}

NextExport ==
  \/ calls = 0 /\ RootEntries(fs) = {} /\ CreateDocument(SymName, ExportHtml)
  \/ GenerateAttempt(0)
  \/ StoreDocument(now, NoFault)
  \/ calls < MaxExports /\ \E id \in ExportIDs, format \in Formats, outputPath \in OutputPaths :
                             ExportDocument(id, format, outputPath)
  \/ calls < MaxExports /\ \E id \in ExportIDs, format \in Formats :
                             ExportDocumentPandocOnly(id, format)
  \/ \E kind \in ChromeKinds \cup ChromeHangs, fault \in TempFaults \cup {NoFault} :
       ExportPDFWithChrome(kind, fault)
  \/ \E kind \in PandocKinds \cup PandocHangs, fault \in TempFaults \cup {NoFault} :
       ExportPDFWithPandoc(kind, fault)
  \/ \E kind \in PandocKinds \cup PandocHangs, fault \in TempFaults \cup {NoFault} :
       ExportDOCX(kind, fault)

SpecExport == Init /\ [][NextExport]_vars

(***************************************************************************)
(* runPandoc step by step: the goroutine that runs the converter, the      *)
(* converter process, the completion channel and the select of the caller  *)
(***************************************************************************)
TimedOut == "pandoc conversion timed out"

\* exportPDFWithPandoc and exportDOCX up to the select of runPandoc: the
\* probe succeeds, the temporary file is written, the channel is made and the
\* goroutine is spawned
RunPandocBegin ==
  /\ pc = "pandoc"
  /\ DOMAIN threads = {}
  /\ LET tmp == GetTempPath(call.id)
         w == FaultyWrite(fs, tmp, Raw(call.html), "ok")
     IN /\ w.ok
        /\ fs' = w.fs
        /\ call' = [call EXCEPT !.pandoc = @ + 1, !.procs = Append(@, "pandoc --version")]
        /\ threads' = [go |-> "spawned", proc |-> "none", starts |-> 0, input |-> "unread",
                       status |-> "", hung |-> FALSE, done |-> <<>>, tmp |-> tmp,
                       out |-> call.out,
                       produced |-> IF call.format = "pdf" THEN PdfOf(call.html)
                                    ELSE DocxOf(call.html),
                       late |-> <<>>]
  /\ pc' = "runPandoc"
  /\ UNCHANGED <<now, last, calls, faults, created, pure, deleted>>

\* the call has returned
CallReturned == pc = "idle"
\* what the converter does after the call has returned
Late(what) == IF CallReturned THEN Append(threads.late, what) ELSE threads.late

\* the goroutine, line 233: cmd.Run starts the process (and sets cmd.Process)
GoStart ==
  /\ DOMAIN threads # {}
  /\ threads.go = "spawned"
  /\ threads' = [threads EXCEPT !.go = "waiting", !.proc = "running", !.starts = @ + 1,
                   !.late = Late("start")]
  /\ UNCHANGED <<fs, now, pc, call, last, calls, faults, created, pure, deleted>>

\* the converter opens its input, the temporary file
ProcRead ==
  /\ DOMAIN threads # {}
  /\ threads.proc = "running"
  /\ ~threads.hung
  /\ threads.input = "unread"
  /\ threads' = [threads EXCEPT !.input = IF IsFile(fs, threads.tmp) THEN "read" ELSE "missing",
                   !.late = Late("read")]
  /\ UNCHANGED <<fs, now, pc, call, last, calls, faults, created, pure, deleted>>

\* the converter writes the output file
ProcWrite ==
  /\ DOMAIN threads # {}
  /\ threads.proc = "running"
  /\ ~threads.hung
  /\ threads.input = "read"
  /\ WriteFileOk(fs, threads.out)
  /\ fs' = WriteFile(fs, threads.out, threads.produced)
  /\ threads' = [threads EXCEPT !.input = "written", !.late = Late("write")]
  /\ UNCHANGED <<now, pc, call, last, calls, faults, created, pure, deleted>>

\* the converter stops making progress and never exits by itself, the case
\* the timeout of runPandoc is there for
ProcHang ==
  /\ DOMAIN threads # {}
  /\ threads.proc = "running"
  /\ ~threads.hung
  /\ threads' = [threads EXCEPT !.hung = TRUE]
  /\ UNCHANGED <<fs, now, pc, call, last, calls, faults, created, pure, deleted>>

\* the converter exits: with success once it has written the output, with
\* failure at any time
ProcExit(status) ==
  /\ DOMAIN threads # {}
  /\ threads.proc = "running"
  /\ ~threads.hung
  /\ status = "ok" => threads.input = "written"
  /\ threads' = [threads EXCEPT !.proc = "exited", !.status = status]
  /\ UNCHANGED <<fs, now, pc, call, last, calls, faults, created, pure, deleted>>

\* the goroutine, line 233: cmd.Run returns once the process has ended
GoWait ==
  /\ DOMAIN threads # {}
  /\ threads.go = "waiting"
  /\ threads.proc \in {"exited", "killed"}
  /\ threads' = [threads EXCEPT !.go = "sending"]
  /\ UNCHANGED <<fs, now, pc, call, last, calls, faults, created, pure, deleted>>

\* the capacity of the completion channel, line 231
DoneCapacity == 1

\* the goroutine, line 233: the send on done, which blocks while the channel
\* is full, and the end of the goroutine
GoSend ==
  /\ DOMAIN threads # {}
  /\ threads.go = "sending"
  /\ Len(threads.done) < DoneCapacity
  /\ threads' = [threads EXCEPT !.go = "terminated",
                   !.done = Append(@, IF threads.proc = "exited" THEN threads.status
                                      ELSE "killed")]
  /\ UNCHANGED <<fs, now, pc, call, last, calls, faults, created, pure, deleted>>

\* runPandoc returns to exportPDFWithPandoc or exportDOCX, whose deferred
\* os.Remove removes the temporary file
RunPandocReturn(ok, err) ==
  /\ fs' = Remove(fs, threads.tmp)
  /\ pc' = "idle"
  /\ call' = NoCall
  /\ last' = [NoLast EXCEPT !.op = "export", !.id = call.id, !.format = call.format,
                !.outputPath = call.outputPath, !.tiered = call.tiered,
                !.ok = ok, !.err = err, !.out = IF ok THEN call.out ELSE <<>>,
                !.chrome = call.chrome, !.chromeKind = call.chromeKind,
                !.chromeRes = call.chromeRes, !.pandoc = call.pandoc,
                !.procs = call.procs, !.storage = <<"GetDocument">>]

\* runPandoc, lines 237-244: the select receives the completion
SelectDone ==
  /\ pc = "runPandoc"
  /\ threads.done # <<>>
  /\ threads' = [threads EXCEPT !.done = Tail(@)]
  /\ RunPandocReturn(Head(threads.done) = "ok",
                     IF Head(threads.done) = "ok" THEN "nil" ELSE "conversion failed")
  /\ UNCHANGED <<now, calls, faults, created, pure, deleted>>

\* runPandoc, lines 245-250: the timer fires.  seen is what the read of
\* cmd.Process yields: nil while cmd.Start has not run, and either value once
\* it has, the read being unordered with the write of the goroutine
SelectTimeout(seen) ==
  /\ pc = "runPandoc"
  /\ seen => threads.go # "spawned"
  /\ threads' = [threads EXCEPT !.proc = IF seen /\ @ = "running" THEN "killed" ELSE @]
  /\ RunPandocReturn(FALSE, TimedOut)
  /\ UNCHANGED <<now, calls, faults, created, pure, deleted>>

\* the specification of runPandoc: a document is created and exported
\* through the converter
RunPandocFormats == {"pdf", "docx"}
RunPandocOutputs == {"", "/o/d/e"}

NextRunPandoc ==
  \/ calls = 0 /\ RootEntries(fs) = {} /\ CreateDocument(SymName, ExportHtml)
  \/ \E r \in RandOutcomes : GenerateAttempt(r)
  \/ StoreDocument(now, NoFault)
  \/ calls < MaxExports /\ \E id \in RootEntries(fs), outputPath \in RunPandocOutputs :
                             ExportDocument(id, "docx", outputPath)
  \/ calls < MaxExports /\ \E id \in RootEntries(fs), format \in RunPandocFormats :
                             ExportDocumentPandocOnly(id, format)
  \/ RunPandocBegin
  \/ GoStart
  \/ ProcRead
  \/ ProcWrite
  \/ ProcHang
  \/ \E status \in {"ok", "fail"} : ProcExit(status)
  \/ GoWait
  \/ GoSend
  \/ SelectDone
  \/ \E seen \in BOOLEAN : SelectTimeout(seen)

SpecRunPandoc == Init /\ [][NextRunPandoc]_vars


(***************************************************************************)
(* Calls that run concurrently.  Each call runs in a goroutine of its own  *)
(* and nothing serializes them: a step is one access to the filesystem or  *)
(* to the clock.  os.WriteFile is two steps, the open that truncates the   *)
(* file and the write at offset 0; os.ReadFile is one.                     *)
(***************************************************************************)
Callers == {1, 2}

NoThread ==
  [op |-> "", pos |-> "", id |-> "", name |-> "", html |-> "", slug |-> "", i |-> 0,
   doc |-> NoDoc, ok |-> FALSE, err |-> "", existed |-> FALSE, draws |-> <<>>]

Running(t) == t \in DOMAIN threads /\ threads[t].pos # "done"
Done(t) == t \in DOMAIN threads /\ threads[t].pos = "done"
Spawn(t, th) == threads' = (t :> th) @@ threads
Step(t, th) == threads' = [threads EXCEPT ![t] = th]
Finish(th, ok, err) == [th EXCEPT !.pos = "done", !.ok = ok, !.err = err]

\* Storage.UpdateDocument with the metadata written before the content
WriteOrderMetaFirst == <<"meta", "html">>
\* the order in which Storage.UpdateDocument (lines 91-104) and
\* Storage.CreateDocument (lines 66-79) write the two files of a document
WriteOrder == <<"html", "meta">>
FirstWrite == WriteOrder[1] \o ".open"
AfterWrite(th, file) ==
  IF file = WriteOrder[Len(WriteOrder)] THEN Finish(th, TRUE, "nil")
  ELSE [th EXCEPT !.pos = WriteOrder[Len(WriteOrder)] \o ".open"]

\* what a write of new at offset 0 leaves in a file that holds old
WriteAt0(old, new) ==
  IF old.kind = "raw" /\ new.kind = "raw"
    THEN Raw(new.s \o SubSeq(old.s, Len(new.s) + 1, Len(old.s)))
  ELSE new
\* a metadata file whose bytes come from two encodings of different length
TornJSON == Raw("{}}")

\* Service.UpdateDocument, lines 64-70, in a goroutine of its own
UpdateStart(t, id, html) ==
  /\ pc = "idle"
  /\ t \notin DOMAIN threads
  /\ LET th == [NoThread EXCEPT !.op = "update", !.id = id, !.html = html]
     IN Spawn(t, IF ~ValidateDocumentID(id) THEN Finish(th, FALSE, "invalid document ID")
                 ELSE IF html = "" THEN Finish(th, FALSE, "HTML content cannot be empty")
                 ELSE [th EXCEPT !.pos = "get.exists"])
  /\ UNCHANGED <<fs, now, pc, call, last, calls, faults, created, pure, deleted>>

\* Service.GetDocument, and Exporter.ExportDocument up to line 43, in a
\* goroutine of its own
GetStart(t, op, id) ==
  /\ pc = "idle"
  /\ t \notin DOMAIN threads
  /\ LET th == [NoThread EXCEPT !.op = op, !.id = id]
     IN Spawn(t, IF ~ValidateDocumentID(id) THEN Finish(th, FALSE, "invalid document ID")
                 ELSE [th EXCEPT !.pos = "get.exists"])
  /\ UNCHANGED <<fs, now, pc, call, last, calls, faults, created, pure, deleted>>

\* Storage.GetDocument, lines 111-113
GetExists(t) ==
  /\ Running(t)
  /\ threads[t].pos = "get.exists"
  /\ Step(t, IF DocumentExists(fs, threads[t].id) THEN [threads[t] EXCEPT !.pos = "get.html"]
             ELSE Finish(threads[t], FALSE, "does not exist"))
  /\ UNCHANGED <<fs, now, pc, call, last, calls, faults, created, pure, deleted>>

\* Storage.GetDocument, lines 116-120: os.ReadFile of index.html
GetHTML(t) ==
  /\ Running(t)
  /\ threads[t].pos = "get.html"
  /\ LET p == GetHTMLPath(threads[t].id)
     IN Step(t, IF IsFile(fs, p)
                  THEN [threads[t] EXCEPT !.pos = "get.meta",
                                          !.doc.HTMLContent = Text(fs[p].data)]
                ELSE Finish(threads[t], FALSE, "failed to read HTML file"))
  /\ UNCHANGED <<fs, now, pc, call, last, calls, faults, created, pure, deleted>>

\* Storage.GetDocument, lines 123-134; an update goes on to its own write,
\* a read returns the document
GetMeta(t) ==
  /\ Running(t)
  /\ threads[t].pos = "get.meta"
  /\ LET th == threads[t]
         m == ReadMetadata(fs, th.id)
         doc == [ID |-> th.id, Name |-> m.Name, HTMLContent |-> th.doc.HTMLContent,
                 CreatedAt |-> m.CreatedAt, UpdatedAt |-> m.UpdatedAt]
     IN Step(t, IF ~ReadMetadataOk(fs, th.id)
                  THEN Finish([th EXCEPT !.doc = NoDoc], FALSE, "failed to read metadata")
                ELSE IF th.op = "update" THEN [th EXCEPT !.pos = "stamp", !.doc = doc]
                ELSE Finish([th EXCEPT !.doc = doc], TRUE, "nil"))
  /\ UNCHANGED <<fs, now, pc, call, last, calls, faults, created, pure, deleted>>

\* Service.UpdateDocument, lines 79-80, and Storage.UpdateDocument, lines
\* 86-88: the new content, the time w that time.Now() returns, and the test
\* of existence
UpdateStamp(t, w) ==
  /\ Running(t)
  /\ threads[t].pos = "stamp"
  /\ now' = w
  /\ LET th == [threads[t] EXCEPT !.doc.HTMLContent = threads[t].html,
                                  !.doc.UpdatedAt = TimeNow(w)]
     IN Step(t, IF DocumentExists(fs, th.id) THEN [th EXCEPT !.pos = FirstWrite]
                ELSE Finish(th, FALSE, "does not exist"))
  /\ UNCHANGED <<fs, pc, call, last, calls, faults, created, pure, deleted>>

\* os.WriteFile of index.html (Storage.UpdateDocument, line 92, and
\* Storage.CreateDocument, line 68): the open, which truncates the file
HTMLOpen(t) ==
  /\ Running(t)
  /\ threads[t].pos = "html.open"
  /\ LET p == GetHTMLPath(threads[t].id)
     IN IF WriteFileOk(fs, p)
          THEN /\ fs' = WriteFile(fs, p, Raw(""))
               /\ Step(t, [threads[t] EXCEPT !.pos = "html.write",
                                             !.existed = IsFile(fs, p)])
        ELSE /\ Step(t, Finish(threads[t], FALSE, "failed to write HTML file"))
             /\ UNCHANGED fs
  /\ UNCHANGED <<now, pc, call, last, calls, faults, created, pure, deleted>>

\* os.WriteFile of index.html: the write
HTMLWrite(t) ==
  /\ Running(t)
  /\ threads[t].pos = "html.write"
  /\ LET p == GetHTMLPath(threads[t].id)
     IN /\ fs' = WriteFile(fs, p, WriteAt0(fs[p].data, Raw(threads[t].doc.HTMLContent)))
        /\ Step(t, AfterWrite(threads[t], "html"))
  /\ UNCHANGED <<now, pc, call, last, calls, faults, created, pure, deleted>>

\* Storage.WriteMetadata: the open of os.WriteFile, which truncates the file
MetaOpen(t) ==
  /\ Running(t)
  /\ threads[t].pos = "meta.open"
  /\ LET p == GetMetadataPath(threads[t].id)
     IN IF WriteFileOk(fs, p)
          THEN /\ fs' = WriteFile(fs, p, Raw(""))
               /\ Step(t, [threads[t] EXCEPT !.pos = "meta.write",
                                             !.existed = @ \/ IsFile(fs, p)])
        ELSE /\ Step(t, Finish(threads[t], FALSE, "failed to write metadata"))
             /\ UNCHANGED fs
  /\ UNCHANGED <<now, pc, call, last, calls, faults, created, pure, deleted>>

\* Storage.WriteMetadata: the write.  The encoding of a time has no fixed
\* length, so a write over what another call has written since the open
\* leaves either the new encoding (intact) or that encoding followed by the
\* tail of the other
MetaWrite(t, intact) ==
  /\ Running(t)
  /\ threads[t].pos = "meta.write"
  /\ LET p == GetMetadataPath(threads[t].id)
         new == MarshalMetadata(MetadataOf(threads[t].doc))
     IN /\ intact \/ fs[p].data \notin {Raw(""), new}
        /\ fs' = WriteFile(fs, p, IF intact THEN new ELSE TornJSON)
        /\ Step(t, AfterWrite(threads[t], "meta"))
  /\ UNCHANGED <<now, pc, call, last, calls, faults, created, pure, deleted>>


\* the specification of concurrent updates: a document is created, then two
\* updateDocument calls run on it with no serialization
ConcHtmls == {"<b>", "<cc>"}

NextConcUpdate ==
  \/ RootEntries(fs) = {} /\ DOMAIN threads = {} /\ CreateDocument(SymName, "<a>")
  \/ \E r \in RandOutcomes : GenerateAttempt(r)
  \/ StoreDocument(now, NoFault)
  \/ \E t \in Callers, id \in RootEntries(fs), html \in ConcHtmls : UpdateStart(t, id, html)
  \/ \E t \in Callers : GetExists(t)
  \/ \E t \in Callers : GetHTML(t)
  \/ \E t \in Callers : GetMeta(t)
  \/ \E t \in Callers, w \in now..MaxTime : UpdateStamp(t, w)
  \/ \E t \in Callers : HTMLOpen(t)
  \/ \E t \in Callers : HTMLWrite(t)
  \/ \E t \in Callers : MetaOpen(t)
  \/ \E t \in Callers, intact \in BOOLEAN : MetaWrite(t, intact)

SpecConcUpdate == Init /\ [][NextConcUpdate]_vars

\* the specification of a read beside an update: a document is created,
\* then one updateDocument call and one getDocument or export call run on it
\* with no serialization
Updater == 1
Reader == 2
ReadOps == {"get", "export"}

NextConcRead ==
  \/ RootEntries(fs) = {} /\ DOMAIN threads = {} /\ CreateDocument(SymName, "<a>")
  \/ \E r \in RandOutcomes : GenerateAttempt(r)
  \/ StoreDocument(now, NoFault)
  \/ \E id \in RootEntries(fs), html \in ConcHtmls : UpdateStart(Updater, id, html)
  \/ \E id \in RootEntries(fs), op \in ReadOps : GetStart(Reader, op, id)
  \/ \E t \in Callers : GetExists(t)
  \/ \E t \in Callers : GetHTML(t)
  \/ \E t \in Callers : GetMeta(t)
  \/ \E w \in now..MaxTime : UpdateStamp(Updater, w)
  \/ HTMLOpen(Updater)
  \/ HTMLWrite(Updater)
  \/ MetaOpen(Updater)
  \/ \E intact \in BOOLEAN : MetaWrite(Updater, intact)

SpecConcRead == Init /\ [][NextConcRead]_vars

\* Service.CreateDocument, lines 35-41, in a goroutine of its own
CreateStart(t, name, html) ==
  /\ pc = "idle"
  /\ t \notin DOMAIN threads
  /\ LET th == [NoThread EXCEPT !.op = "create", !.name = name, !.html = html]
     IN Spawn(t, IF name = "" THEN Finish(th, FALSE, "document name cannot be empty")
                 ELSE IF html = "" THEN Finish(th, FALSE, "HTML content cannot be empty")
                 ELSE [th EXCEPT !.pos = "generate", !.slug = Slugified(name)])
  /\ UNCHANGED <<fs, now, pc, call, last, calls, faults, created, pure, deleted>>

\* GenerateDocumentID, lines 37-44: one iteration of the retry loop, whose
\* test of existence is one access to the filesystem
CreateAttempt(t, r) ==
  /\ Running(t)
  /\ threads[t].pos = "generate"
  /\ threads[t].i < MaxAttempts
  /\ LET id == CandidateID(threads[t].slug, generateRandomSuffix(r))
     IN Step(t, IF ~DocumentExists(fs, id) THEN [threads[t] EXCEPT !.id = id, !.pos = "mkdirs"]
                ELSE [threads[t] EXCEPT !.i = @ + 1])
  /\ UNCHANGED <<fs, now, pc, call, last, calls, faults, created, pure, deleted>>

\* GenerateDocumentID, lines 46-48: the longer suffix after the last attempt
CreateFallback(t, r1, r2) ==
  /\ Running(t)
  /\ threads[t].pos = "generate"
  /\ ~(threads[t].i < MaxAttempts)
  /\ Step(t, [threads[t] EXCEPT !.pos = "mkdirs",
                !.id = CandidateID(threads[t].slug,
                                   generateRandomSuffix(r1) \o generateRandomSuffix(r2))])
  /\ UNCHANGED <<fs, now, pc, call, last, calls, faults, created, pure, deleted>>

\* Service.CreateDocument, lines 46-53: the document stamped with the time
\* w that time.Now() returns; Storage.CreateDocument, lines 54-63: the
\* directories, which os.MkdirAll leaves alone when they exist
CreateDirs(t, w) ==
  /\ Running(t)
  /\ threads[t].pos = "mkdirs"
  /\ now' = w
  /\ LET th == [threads[t] EXCEPT
                  !.doc = [ID |-> threads[t].id, Name |-> threads[t].name,
                           HTMLContent |-> threads[t].html,
                           CreatedAt |-> TimeNow(w), UpdatedAt |-> TimeNow(w)]]
         f1 == MkdirAll(fs, GetDocumentPath(th.id))
     IN IF ~MkdirAllOk(fs, GetDocumentPath(th.id))
          THEN /\ Step(t, Finish(th, FALSE, "failed to create document directory"))
               /\ UNCHANGED fs
        ELSE IF ~MkdirAllOk(f1, GetMediaDir(th.id))
          THEN /\ Step(t, Finish(th, FALSE, "failed to create media directory"))
               /\ fs' = f1
        ELSE /\ Step(t, [th EXCEPT !.pos = FirstWrite])
             /\ fs' = MkdirAll(f1, GetMediaDir(th.id))
  /\ UNCHANGED <<pc, call, last, calls, faults, created, pure, deleted>>

\* the specification of concurrent creation: two createDocument calls with
\* the same name run on one store with no serialization
\* the content each of the two calls passes
CreateHtmlOf == <<"<b>", "<cc>">>

NextConcCreate ==
  \/ \E t \in Callers : CreateStart(t, SymName, CreateHtmlOf[t])
  \/ \E t \in Callers, r \in RandOutcomes : CreateAttempt(t, r)
  \/ \E t \in Callers, r1, r2 \in RandOutcomes : CreateFallback(t, r1, r2)
  \/ \E t \in Callers, w \in now..MaxTime : CreateDirs(t, w)
  \/ \E t \in Callers : HTMLOpen(t)
  \/ \E t \in Callers : HTMLWrite(t)
  \/ \E t \in Callers : MetaOpen(t)
  \/ \E t \in Callers, intact \in BOOLEAN : MetaWrite(t, intact)

SpecConcCreate == Init /\ [][NextConcCreate]_vars

(***************************************************************************)
(* Specification of deletion: a document is created, given media and       *)
(* deleted, under its own ID or under the ID of its media directory        *)
(***************************************************************************)
NextDelete ==
  \/ RootEntries(fs) = {} /\ CreateDocument(SymName, "<a>")
  \/ \E r \in RandOutcomes : GenerateAttempt(r)
  \/ StoreDocument(now, NoFault)
  \/ calls < MaxDeleteCalls /\ \E id \in RootEntries(fs) : AddMedia(id, "/t/index.html", "image")
  \/ calls < MaxDeleteCalls /\ \E id \in RootEntries(fs) \cup NestedIDs : DeleteDocument(id)

SpecDelete == Init /\ [][NextDelete]_vars

(***************************************************************************)
(* Properties of document creation (checked under SpecCreate)              *)
(***************************************************************************)
\* the createDocument call that completed last returned an ID
Returned == last.op = "create" /\ last.ok

\* C1: a createDocument call that returns successfully, whatever the store
\* holds and whatever the suffix draws were (runs of colliding candidates
\* included), returns an ID that ValidateDocumentID accepts and for which
\* DocumentExists holds right after the call.
C1_CreatedIDValidAndExists ==
  Returned => ValidateDocumentID(last.id) /\ DocumentExists(fs, last.id)

\* C2: GenerateDocumentID never returns an ID for which the existence
\* predicate holds at the moment of return; so the IDs returned by
\* successive createDocument calls are pairwise distinct and no create
\* overwrites the files of a document that already exists.
C2_GeneratedIDUnused ==
  /\ pc = "store" => ~DocumentExists(fs, call.id)
  /\ \A i, j \in 1..Len(created) : i # j => created[i] # created[j]
  /\ Returned => ~last.existed

\* C3: round trip: getDocument of the ID that createDocument(name, html)
\* returned succeeds and returns that ID, the name and the html given, and
\* createdAt equal to updatedAt.
C3_GetAfterCreate ==
  Returned =>
    LET got == ServiceGetDocument(fs, last.id, NoFault) IN
      /\ got.err = "nil"
      /\ got.doc.ID = last.id
      /\ got.doc.Name = last.name
      /\ got.doc.HTMLContent = last.html
      /\ got.doc.CreatedAt = got.doc.UpdatedAt

\* C5: starting from an empty root directory, after N successful
\* createDocument calls (names may repeat) listDocuments returns exactly N
\* summaries, one for each ID returned, each with FilePath <id>/index.html.
C5_ListAfterCreates ==
  (pure /\ pc = "idle") =>
    LET list == StorageListDocuments(fs) IN
      /\ ListDocumentsOk(fs)
      /\ Cardinality(list) = Len(created)
      /\ {d.ID : d \in list} = {created[i] : i \in 1..Len(created)}
      /\ \A d \in list : d.FilePath = d.ID \o "/index.html"

C6_DeletedStaysDeleted ==
  \A id \in deleted :
    /\ ~DocumentExists(fs, id)
    /\ ServiceGetDocument(fs, id, NoFault).err = "does not exist"
    /\ StorageDeleteDocument(fs, id, NoFault).err = "does not exist"
    /\ \A d \in StorageListDocuments(fs) : d.ID # id
    /\ \A p \in DOMAIN fs : IsPrefix(GetDocumentPath(id), p) => fs[p].dir

\* C7: for every ID that ValidateDocumentID accepts and every sourcePath,
\* whatever updateDocument, addMedia, deleteDocument or an export to the
\* default path reads as a document, writes or removes lies inside
\* rootDir/<id>/ for a direct child <id> of rootDir, and a media copy lands
\* inside rootDir/<id>/media/; nothing outside rootDir is written or deleted.
C7_PathsStayInsideRoot ==
  ( /\ last.op \in {"update", "addMedia", "delete", "export"}
    /\ last.op = "export" => last.outputPath = ""
    /\ ValidateDocumentID(last.id) ) =>
    LET dir == Append(RootDir, last.id) IN
      /\ (last.ok \/ last.changed # {}) => GetDocumentPath(last.id) = dir
      /\ \A p \in last.changed : IsPrefix(RootDir, p) /\ IsPrefix(dir, p)
      /\ last.op = "addMedia" =>
           \A p \in last.changed : IsPrefix(Append(dir, "media"), p) /\ Len(p) = Len(dir) + 2

\* C8: between operations, also after operations that failed part-way, every
\* ID for which DocumentExists holds has an index.html and a metadata.json
\* that parses at rootDir/<id>/, so GetDocument(id) succeeds.
C8_ExistingDocumentIsComplete ==
  pc = "idle" =>
    \A id \in RootEntries(fs) \cup NestedIDs :
      DocumentExists(fs, id) =>
        /\ IsFile(fs, GetHTMLPath(id))
        /\ ReadMetadataOk(fs, id)
        /\ ServiceGetDocument(fs, id, NoFault).err = "nil"

(***************************************************************************)
(* Properties of export (checked under SpecExport)                         *)
(***************************************************************************)
\* C9: an export of an existing document with format html launches no
\* external process and, when it succeeds, returns the output path (by
\* default rootDir/<id>/<id>.html) and leaves there a file whose content is
\* byte for byte that of the stored index.html.
C9_HtmlExportIsVerbatim ==
  (last.op = "export" /\ last.format = "html") =>
    /\ last.procs = <<>>
    /\ last.ok =>
         LET expected == IF last.outputPath = ""
                         THEN Resolve(RootDir, Split(last.id \o "/" \o last.id \o ".html"))
                         ELSE Clean(last.outputPath)
         IN /\ last.out = expected
            /\ IsFile(fs, expected)
            /\ IsFile(fs, GetHTMLPath(last.id))
            /\ fs[expected].data = fs[GetHTMLPath(last.id)].data

\* a successful html export of a document of the store to the default path
C9_Witness ==
  /\ last.op = "export" /\ last.format = "html" /\ last.ok
  /\ last.outputPath = ""
  /\ last.id \in RootEntries(fs)
  /\ Text(fs[last.out].data) = ExportHtml

\* the PDF export, of the exporter with the browser tier, that is in flight
\* or completed last
PdfExport == IF pc = "idle" THEN last ELSE call

\* C10: in PDF export with the browser tier, the converter tier is attempted
\* if and only if the browser tier failed; every kind of browser failure
\* (unavailable or failing to launch, connection, page load, PDF generation,
\* timeout) ends the browser tier as failed and has the converter tier
\* attempted exactly once, and the browser tier is never retried.
C10_ConverterIffBrowserFailed ==
  (PdfExport.tiered /\ PdfExport.format = "pdf" /\ PdfExport.chrome > 0) =>
    /\ PdfExport.chrome = 1
    /\ PdfExport.pandoc <= 1
    /\ (pc = "pandoc" \/ PdfExport.pandoc = 1) <=> PdfExport.chromeRes = "failed"
    /\ PdfExport.chromeKind \in ChromeFailures => PdfExport.chromeRes = "failed"
    /\ PdfExport.chromeRes = "failed" =>
         \/ pc = "pandoc" /\ PdfExport.pandoc = 0
         \/ pc = "idle" /\ PdfExport.pandoc = 1

\* C11: when a render attempt (browser tier, PDF converter tier, DOCX
\* converter) of an export call has reported its result, whatever the result,
\* the temporary file rootDir/<id>/temp_export.html is gone; after
\* ExportDocument has returned the document directory holds no
\* temp_export.html.
C11_TempFileRemoved ==
  /\ (pc = "idle" /\ last.op = "export") => ~Exists(fs, GetTempPath(last.id))
  /\ (pc = "pandoc" /\ call.chrome > 0) => ~Exists(fs, GetTempPath(call.id))

\* C12: an export call never waits for an external process without a
\* deadline: every wait of a render attempt (the launch of the browser, the
\* probe of the converter, the conversion) is bounded by the timeout, so the
\* call is never left blocked on a process that does not exit.
C12_NoUnboundedWait == pc # "blocked"

\* C13: no operation ends by a panic: whatever fails (the filesystem, the
\* browser, the converter), the call in flight returns an error to its caller
\* and the process keeps running.
C13_NoPanic == pc # "crashed"

\* C14: an ExportDocument call with a format outside {html, pdf, docx} whose
\* document could be read returns the unsupported-format error, has launched
\* no external process and has created or modified no file or directory,
\* with or without an explicit output path.
C14_UnsupportedFormatDoesNothing ==
  (pc = "idle" /\ last.op = "export" /\ last.format \notin {"html", "pdf", "docx"}
     /\ last.err # "failed to get document")
    => /\ ~last.ok
       /\ last.err = "unsupported format"
       /\ last.procs = <<>>
       /\ last.changed = {}

(***************************************************************************)
(* Properties of input validation (checked under SpecValidation)           *)
(***************************************************************************)
\* the arguments of the call c are among those the service must reject
RejectedArguments(c) ==
  \/ c.op = "create" /\ (c.name = "" \/ c.html = "")
  \/ c.op = "update" /\ (~ValidateDocumentID(c.id) \/ c.html = "")
  \/ c.op \in {"get", "delete"} /\ ~ValidateDocumentID(c.id)
  \/ c.op = "addMedia" /\ (~ValidateDocumentID(c.id) \/ c.src = ""
                              \/ c.mtype \notin {"image", "video"})

\* a step that completes a call of the service
CallCompletes == pc' = "idle" /\ (calls' = calls + 1 \/ pc = "store")

\* C15: a step that completes createDocument with an empty name or html,
\* updateDocument with an invalid ID or empty html, getDocument or
\* deleteDocument with an invalid ID, or addMedia with an invalid ID, an empty
\* sourcePath or a mediaType outside {image, video} returns an error, has
\* invoked no operation of the storage engine and leaves the filesystem as it
\* was.
C15_RejectedWithoutStorage ==
  [][(CallCompletes /\ RejectedArguments(last'))
       => (~last'.ok /\ last'.err # "nil" /\ last'.storage = <<>> /\ fs' = fs)]_vars

C15_Witness ==
  /\ pc = "idle" /\ last.op = "addMedia" /\ last.mtype = "audio"
  /\ last.existed /\ ValidateDocumentID(last.id) /\ last.src = "/t/p.png"
  /\ last.storage = <<>>

(***************************************************************************)
(* Properties of updates of what does not exist (under SpecValidation)     *)
(***************************************************************************)
\* C16: a step that completes updateDocument with arguments that pass
\* validation, on an ID whose index.html does not exist, returns the
\* does-not-exist error and leaves the filesystem as it was: no directory
\* or file is created and the document does not exist afterwards.  In every
\* state the storage update of a document whose index.html does not exist
\* returns the does-not-exist error and the filesystem unchanged.
C16_UpdateNeverCreates ==
  [][/\ (calls' = calls + 1 /\ last'.op = "update" /\ ValidateDocumentID(last'.id)
           /\ last'.html # "" /\ ~DocumentExists(fs, last'.id))
        => /\ ~last'.ok
           /\ last'.err = "does not exist"
           /\ fs' = fs
           /\ ~DocumentExists(fs', last'.id)
     /\ \A id \in ValidationIDs :
          ~DocumentExists(fs, id)
            => StorageUpdateDocument(fs, [NoDoc EXCEPT !.ID = id, !.HTMLContent = "<b>"], NoFault)
                 = [fs |-> fs, err |-> "does not exist"]]_vars

\* an update of the media directory of a document of the store, a directory
\* that exists and holds no index.html, has been refused
C16_Witness ==
  /\ pc = "idle" /\ last.op = "update" /\ ~last.ok /\ last.err = "does not exist"
  /\ last.id \in NestedIDs
  /\ IsDir(fs, GetDocumentPath(last.id))

(***************************************************************************)
(* Properties of updates and media (checked under SpecMedia)               *)
(***************************************************************************)
\* C17: a step that completes a successful updateDocument or addMedia on a
\* document that getDocument returns leaves the id, the name and the
\* createdAt that getDocument returns as they were, and the updatedAt it
\* returns is not earlier than the createdAt; the same holds of updatedAt
\* right after a successful createDocument.  (So through any sequence of
\* such calls getDocument returns the id, name and createdAt it returned
\* right after creation.)
C17_IdentityIsKept ==
  [][/\ (calls' = calls + 1 /\ last'.op \in {"update", "addMedia"} /\ last'.ok)
        => LET before == ServiceGetDocument(fs, last'.id, NoFault)
               after == ServiceGetDocument(fs', last'.id, NoFault)
           IN before.err = "nil"
                => /\ after.err = "nil"
                   /\ after.doc.ID = before.doc.ID
                   /\ after.doc.Name = before.doc.Name
                   /\ after.doc.CreatedAt = before.doc.CreatedAt
                   /\ after.doc.UpdatedAt.wall >= after.doc.CreatedAt.wall
                   /\ last'.op = "addMedia" => after.doc = before.doc
     /\ (pc = "store" /\ last'.op = "create" /\ last'.ok)
        => LET after == ServiceGetDocument(fs', last'.id, NoFault)
           IN /\ after.err = "nil"
              /\ after.doc.ID = last'.id
              /\ after.doc.UpdatedAt.wall >= after.doc.CreatedAt.wall]_vars

\* a successful update made later than the creation, after an addMedia
C17_Witness ==
  /\ pc = "idle" /\ last.op = "update" /\ last.ok
  /\ last.doc.UpdatedAt.wall > last.doc.CreatedAt.wall
  /\ last.id \in RootEntries(fs)
  /\ IsFile(fs, MediaDest(last.id, "/t/p.png"))

\* C18: after a successful addMedia(id, sourcePath, type) the path returned is
\* media/<basename of sourcePath>, and rootDir/<id>/media/<basename> is a
\* file whose content is the content the source file had when the call
\* started, whether or not a file of that name was in the media directory.
C18_MediaIsCopied ==
  (pc = "idle" /\ last.op = "addMedia" /\ last.ok)
    => /\ last.path = "media/" \o Base(last.src)
       /\ IsFile(fs, MediaDest(last.id, last.src))
       /\ fs[MediaDest(last.id, last.src)].data = last.srcdata

(***************************************************************************)
(* Properties of ID generation and validation (checked under SpecIdgen)    *)
(***************************************************************************)
\* C19: the ID that GenerateDocumentID has produced for a name is a slug, a
\* hyphen and the suffix, where the slug is the normalized name when that has
\* between 1 and 30 characters, its first 30 characters (so exactly 30) when
\* it has more, and "document" when it is empty.
C19_SlugIsTruncatedName ==
  pc = "store" =>
    LET made == SlugMake(call.name)
        k == IF call.i < MaxAttempts THEN SuffixLength ELSE 2 * SuffixLength
        n == Len(call.id)
        slug == SubSeq(call.id, 1, n - k - 1)
    IN /\ n > k
       /\ Char(call.id, n - k) = "-"
       /\ \A j \in (n - k + 1)..n : Contains("0123456789abcdef", Char(call.id, j))
       /\ Len(made) > 30 => (Len(slug) = 30 /\ slug = SubSeq(made, 1, 30))
       /\ (made # "" /\ Len(made) <= 30) => slug = made
       /\ made = "" => slug = "document"

\* an ID has been produced for a name whose normalized form has more than
\* 30 characters
C19_Witness == pc = "store" /\ Len(SlugMake(call.name)) > 30 /\ call.id # ""

\* C20: getDocument rejects an ID as invalid exactly when the ID is empty,
\* holds no hyphen or has more than 35 characters, whatever the store
\* holds.
C20_ValidIffShapeOk ==
  (pc = "idle" /\ last.op = "get")
    => (last.err = "invalid document ID"
          <=> ~(/\ last.id # ""
                /\ \E j \in 1..Len(last.id) : Char(last.id, j) = "-"
                /\ Len(last.id) <= 35))

\* an ID of exactly 35 characters with a hyphen has passed validation, in a
\* store that holds a document
C20_Witness ==
  /\ pc = "idle" /\ last.op = "get" /\ Len(last.id) = 35
  /\ last.err = "does not exist"
  /\ RootEntries(fs) # {}

(***************************************************************************)
(* Properties of the retry loop (checked under SpecRetry)                  *)
(***************************************************************************)
IsLowerHex(s) == \A j \in 1..Len(s) : Contains("0123456789abcdef", Char(s, j))

\* C21: GenerateDocumentID evaluates the existence predicate at most 100
\* times, each time on <slug>-<4 lowercase hex characters>; it returns the
\* first candidate for which the predicate is false, and after 100
\* candidates that all exist it returns <slug>-<8 lowercase hex characters>
\* with no further evaluation; the loop counter never passes 100, so the
\* call ends, also when the random source fails.
C21_RetryIsBounded ==
  /\ pc = "generate" => (call.i <= 100 /\ call.evals = call.i)
  /\ pc = "store" =>
        LET n == Len(call.id)
            k == n - Len(call.slug) - 1
        IN /\ call.evals <= 100
           /\ SubSeq(call.id, 1, Len(call.slug) + 1) = call.slug \o "-"
           /\ IsLowerHex(SubSeq(call.id, n - k + 1, n))
           /\ IF call.i < 100
                THEN k = 4 /\ call.evals = call.i + 1 /\ ~DocumentExists(fs, call.id)
                ELSE k = 8 /\ call.evals = 100

\* the loop has run to its end and the longer ID has been returned, with
\* suffixes drawn while the random source fails
C21_Witness ==
  /\ pc = "store" /\ call.i = 100
  /\ call.id = call.slug \o "-" \o "00030003"

(***************************************************************************)
(* Properties of listing (checked under SpecList)                          *)
(***************************************************************************)
\* the names of the entries of rootDir, of whatever kind
RootNames == {p[Len(p)] : p \in {q \in DOMAIN fs : Len(q) = 2 /\ q[1] = "r"}}

\* the entries that are directories holding an index.html and a
\* metadata.json that parses
Listable ==
  {d \in RootNames :
     /\ fs[<<"r", d>>].dir
     /\ <<"r", d, "index.html">> \in DOMAIN fs
     /\ <<"r", d, "metadata.json">> \in DOMAIN fs
     /\ ~fs[<<"r", d, "metadata.json">>].dir
     /\ fs[<<"r", d, "metadata.json">>].data.kind = "json"}

\* C22: listDocuments fails only with the error of reading rootDir; when it
\* succeeds it returns one summary for each immediate subdirectory of rootDir
\* that holds an index.html and a parseable metadata.json, built from that
\* metadata, and none for any other entry.
C22_ListSkipsBadEntries ==
  (pc = "idle" /\ last.op = "list")
    => /\ ~last.ok => last.err = "failed to read root directory"
       /\ last.ok =>
            /\ {e.ID : e \in last.list} = Listable
            /\ \A e \in last.list :
                 LET m == fs[<<"r", e.ID, "metadata.json">>].data.meta
                 IN /\ e.Name = m.name
                    /\ e.CreatedAt.wall = m.created_at
                    /\ e.UpdatedAt.wall = m.updated_at
                    /\ e.FilePath = e.ID \o "/index.html"

\* a listing has succeeded in a store that holds a plain file, a document
\* directory whose metadata does not parse and a complete document
C22_Witness ==
  /\ pc = "idle" /\ last.op = "list" /\ last.ok /\ last.list # {}
  /\ \E d \in RootNames : ~fs[<<"r", d>>].dir
  /\ \E d \in RootNames :
       /\ <<"r", d, "metadata.json">> \in DOMAIN fs
       /\ fs[<<"r", d, "metadata.json">>].data.kind # "json"

(***************************************************************************)
(* Further properties of export (checked under SpecExport)                 *)
(***************************************************************************)
InSeq(x, q) == \E j \in 1..Len(q) : q[j] = x

\* C23: a DOCX export never enters the browser tier and starts no browser;
\* the converter tier of a PDF export and a DOCX export start the probe
\* "pandoc --version" before anything else; and the step in which the probe
\* finds the converter not invocable returns the availability error with the
\* filesystem as it was (no temporary file written) and no conversion
\* process started.
C23_ProbeComesFirst ==
  [][/\ (pc = "chrome" /\ pc' # "chrome") => call.format = "pdf"
     /\ (pc' = "idle" /\ last'.op = "export" /\ last'.format = "docx" /\ pc # "idle")
          => (last'.chrome = 0 /\ ~InSeq("chrome", last'.procs))
     /\ (pc = "pandoc" /\ pc' = "idle")
          => /\ Len(last'.procs) > Len(call.procs)
             /\ last'.procs[Len(call.procs) + 1] = "pandoc --version"
             /\ last'.err = "pandoc not found"
                  => /\ ~last'.ok
                     /\ fs' = fs
                     /\ last'.procs = Append(call.procs, "pandoc --version")]_vars

\* a DOCX export has found the converter not invocable
C23_Witness ==
  /\ pc = "idle" /\ last.op = "export" /\ last.format = "docx"
  /\ last.err = "pandoc not found"
  /\ last.procs = <<"pandoc --version">>

(***************************************************************************)
(* Properties of print-style injection (checked under SpecInject)          *)
(***************************************************************************)
\* the positions (0-based) at which sub occurs in s when the case of ASCII
\* letters is ignored
FoldHits(s, sub) ==
  {i \in 0..(Len(s) - Len(sub)) :
     \A j \in 1..Len(sub) : ToLower(Char(s, i + j)) = ToLower(Char(sub, j))}
Least(S) == CHOOSE i \in S : \A j \in S : i <= j

\* the position at which the style block belongs: before the first </head>;
\* else after the > that closes the first <body; else the start
InjectPosition(h) ==
  LET heads == FoldHits(h, "</head>")
      bodies == FoldHits(h, "<body")
      closes == IF bodies = {} THEN {}
                ELSE {i \in Least(bodies)..(Len(h) - 1) : Char(h, i + 1) = ">"}
  IN IF heads # {} THEN Least(heads)
     ELSE IF closes # {} THEN Least(closes) + 1
     ELSE 0

\* C24: InjectDefaultPrintStyles returns, for every HTML string, the string
\* with the style block (and the line breaks around it) inserted at one
\* position, every original character kept in place around it: before the
\* first case-insensitive </head>, else after the > that closes the first
\* <body tag, else at the start.
C24_StylesInsertedAtOnePlace ==
  last.op = "inject" =>
    LET h == last.html
        pos == InjectPosition(h)
    IN /\ last.ok
       /\ \E block \in {defaultPrintStyles \o Newline, Newline \o defaultPrintStyles \o Newline} :
            last.injected = SubSeq(h, 1, pos) \o block \o SubSeq(h, pos + 1, Len(h))
(***************************************************************************)
(* C25: once runPandoc has returned the timeout error, no converter        *)
(* process of that call is running and none is still to be started, so     *)
(* nothing reads the removed temporary file or writes the output file      *)
(* after the export has reported the failure.                              *)
(***************************************************************************)
C25_TimeoutEndsConverter ==
  (pc = "idle" /\ DOMAIN threads # {} /\ last.err = TimedOut) =>
    /\ threads.proc # "running"
    /\ threads.go # "spawned"
    /\ threads.late = <<>>

(***************************************************************************)
(* C26: a runPandoc call starts at most one child process, the send of its *)
(* goroutine on the completion channel never has to wait, and once the     *)
(* call has returned the goroutine is not left waiting in cmd.Run for a    *)
(* converter that does not exit and that nobody is going to kill.          *)
(***************************************************************************)
OneProcess == threads.starts <= 1
SendNeverWaits == threads.go = "sending" => Len(threads.done) < DoneCapacity
LeftBlocked ==
  pc = "idle" /\ threads.go = "waiting" /\ threads.proc = "running" /\ threads.hung

C26_GoroutineTerminates ==
  DOMAIN threads # {} => OneProcess /\ SendNeverWaits /\ ~LeftBlocked

(***************************************************************************)
(* C27: once two concurrent updateDocument calls on one ID have both       *)
(* returned with success, the stored document is the complete result of    *)
(* one of them: its content and its updatedAt are those of the same call.  *)
(***************************************************************************)
BothReturned ==
  /\ DOMAIN threads = Callers
  /\ \A t \in Callers : threads[t].op = "update" /\ Done(t) /\ threads[t].ok
  /\ threads[1].id = threads[2].id

ResultOf(t, doc) ==
  /\ doc.HTMLContent = threads[t].doc.HTMLContent
  /\ doc.UpdatedAt.wall = threads[t].doc.UpdatedAt.wall

C27_LastWriteWins ==
  BothReturned =>
    LET got == StorageGetDocument(fs, threads[1].id, NoFault)
    IN got.err = "nil" /\ \E t \in Callers : ResultOf(t, got.doc)

(***************************************************************************)
(* C28: a getDocument or an export that runs beside an updateDocument on   *)
(* the same ID can return the new content with the old updatedAt, because  *)
(* the update writes index.html before metadata.json and nothing locks     *)
(* the document: while the update is between its two writes, the store     *)
(* holds the new content with the old updatedAt, and a read returns a      *)
(* content and an updatedAt each of which the creation or the update has   *)
(* written, not necessarily the same one.                                  *)
(***************************************************************************)
ReadReturned ==
  /\ Reader \in DOMAIN threads
  /\ threads[Reader].op \in ReadOps
  /\ Done(Reader)
  /\ threads[Reader].ok

OldStamp == last.doc.UpdatedAt.wall
\* the update has written index.html and has not touched metadata.json yet
BetweenWrites == Updater \in DOMAIN threads /\ threads[Updater].pos = "meta.open"

C28_ReadBesideUpdate ==
  /\ BetweenWrites =>
       LET got == StorageGetDocument(fs, threads[Updater].id, NoFault)
       IN /\ got.err = "nil"
          /\ got.doc.HTMLContent = threads[Updater].html
          /\ got.doc.UpdatedAt.wall = OldStamp
  /\ ReadReturned =>
       LET got == threads[Reader].doc
           written == {last.doc} \cup {threads[u].doc : u \in DOMAIN threads \ {Reader}}
       IN /\ got.HTMLContent \in {d.HTMLContent : d \in written} \cup {""}
          /\ got.UpdatedAt.wall \in {d.UpdatedAt.wall : d \in written}

\* the read has returned while the update is between its two writes, with
\* the new content and the old updatedAt
C28_Witness ==
  /\ ReadReturned
  /\ BetweenWrites
  /\ threads[Updater].doc.UpdatedAt.wall # OldStamp
  /\ threads[Reader].doc.HTMLContent = threads[Updater].html
  /\ threads[Reader].doc.HTMLContent # last.doc.HTMLContent
  /\ threads[Reader].doc.UpdatedAt.wall = OldStamp

(***************************************************************************)
(* C29: two concurrent createDocument calls with the same name never both  *)
(* return the same ID, and neither writes index.html or metadata.json over *)
(* a file that the other has written.                                      *)
(***************************************************************************)
Created(t) == t \in DOMAIN threads /\ threads[t].op = "create" /\ Done(t) /\ threads[t].ok

C29_ConcurrentCreatesAreDistinct ==
  /\ (Created(1) /\ Created(2)) => threads[1].id # threads[2].id
  /\ \A t \in DOMAIN threads : threads[t].op = "create" => ~threads[t].existed

(***************************************************************************)
(* C30: in every state that create, update, addMedia and delete calls      *)
(* reach, for every ID that ValidateDocumentID accepts, getDocument(id)    *)
(* succeeds if and only if listDocuments returns a summary with that ID.   *)
(***************************************************************************)
GetSucceeds(id) == ServiceGetDocument(fs, id, NoFault).err = "nil"
Listed(id) == \E s \in StorageListDocuments(fs) : s.ID = id

C30_ListAgreesWithGet ==
  \A id \in StoreIDs \cup NestedIDs : ValidateDocumentID(id) => (GetSucceeds(id) <=> Listed(id))

(***************************************************************************)
(* C31: for distinct IDs A and B that ValidateDocumentID accepts, a        *)
(* createDocument that returns A, and an updateDocument, addMedia or       *)
(* deleteDocument called with A, leave the index.html, the metadata.json   *)
(* and the media files of document B as they were, whether the call        *)
(* succeeds or fails.                                                      *)
(***************************************************************************)
\* the files of document B: its content, its metadata, its media
FilesOf(B) ==
  {GetHTMLPath(B), GetMetadataPath(B)}
    \cup {p \in DOMAIN fs \cup last.changed : IsPrefix(GetMediaDir(B), p)}

C31_OtherDocumentsUntouched ==
  ( /\ pc = "idle"
    /\ last.op \in {"create", "update", "addMedia", "delete"}
    /\ ValidateDocumentID(last.id) ) =>
    \A B \in {created[j] : j \in 1..Len(created)} :
      (B # last.id /\ ValidateDocumentID(B)) =>
      last.changed \cap FilesOf(B) = {}

(***************************************************************************)
(* C32: every step of an ExportDocument call, for every format, every      *)
(* outcome and every output path (default or explicit), leaves the         *)
(* index.html, the metadata.json and the media files of every stored       *)
(* document as they were; what the call changes is the output file, the    *)
(* parent directories created for it and, until the render attempt         *)
(* reports, its temporary file, which is gone when the call has returned.  *)
(***************************************************************************)
\* a step of an export call: ExportDocument up to the switch, or a tier
ExportStep ==
  /\ pc \in {"idle", "chrome", "pandoc"}
  /\ pc' \notin {"generate", "store"}
\* the export call the step belongs to
Exported == IF pc = "idle" THEN (IF pc' = "idle" THEN last' ELSE call') ELSE call
\* the stored files of document B in the filesystem f
StoredFilesOf(f, B) ==
  {p \in DOMAIN f : /\ ~f[p].dir
                    /\ \/ p \in {GetHTMLPath(B), GetMetadataPath(B)}
                       \/ IsPrefix(GetMediaDir(B), p)}
ExportOutput == OutputPathOf(Exported.id, Exported.format, Exported.outputPath)

C32_ExportLeavesDocumentsAlone ==
  [][ExportStep =>
       /\ \A j \in 1..Len(created) :
            Changed(fs, fs') \cap StoredFilesOf(fs, created[j]) = {}
       /\ Changed(fs, fs') \subseteq
            {ExportOutput, GetTempPath(Exported.id)} \cup Prefixes(Parent(ExportOutput))
       /\ pc' = "idle" => ~Exists(fs', GetTempPath(Exported.id))]_vars

====
